---- MODULE Spec2Model ----
(***************************************************************************)
(* Dispatcher of the EveryNotify plugin (createDispatcher): the delay      *)
(* queue with replace-on-duplicate, the immediate events with their 500 ms *)
(* dedup, the fan-out to the enabled services with a 5 s deadline per      *)
(* call, and flush(); and the pure function truncate.                      *)
(*                                                                         *)
(* One action is one macrotask of the JavaScript event loop together with  *)
(* the microtasks it triggers: a call of dispatch() or flush() up to its   *)
(* first pending await, the callback of a timer, or the settlement of one  *)
(* service call with the continuations that become runnable by it.         *)
(***************************************************************************)
EXTENDS Integers, Sequences, FiniteSets, TLC

\* ------------------------------------------------------------------ bounds
MaxDispatch == 2        \* dispatch() calls per behaviour of Spec
MaxFlush == 2           \* flush() calls per behaviour of Spec
MaxServices == 1        \* Spec enables the first 0..MaxServices of ServiceNames
MaxDelaySec == 1        \* config.delay is drawn from 0..MaxDelaySec seconds
TickMs == 500           \* granularity of the clock
StartTime == 1000       \* Date.now() when the dispatcher is created
MaxTime == 2500         \* the clock of Spec stops here
BurstDispatch == 3      \* dispatch() calls per behaviour of SpecBurst
BurstFlush == 1         \* flush() calls per behaviour of SpecBurst
FanoutDispatch == 1     \* dispatch() calls per behaviour of SpecFanout
FanoutServices == 2     \* SpecFanout enables the first FanoutServices of ServiceNames
FanoutFlush == 1        \* flush() calls per behaviour of SpecFanout
FanoutMaxTime == 6000   \* the clock of SpecFanout and SpecLogger stops here
MaxTextLen == 5         \* SpecTruncate: texts of 0..MaxTextLen characters, maxLength in 0..MaxTextLen
MaxHalfSec == 3         \* config.delay of SpecDelay is -MaxHalfSec/2..MaxHalfSec/2 seconds
LoggerDispatch == 1     \* dispatch() calls per behaviour of SpecLogger
LoggerServices == 1     \* SpecLogger enables the first LoggerServices of ServiceNames
LoggerFlush == 1        \* flush() calls per behaviour of SpecLogger
DedupDispatch == 3      \* dispatch() calls per behaviour of SpecDedup
ClockDispatch == 2      \* dispatch() calls per behaviour of SpecClock
ClockFlush == 1         \* flush() calls per behaviour of SpecClock
RearmDispatch == 3      \* dispatch() calls per behaviour of SpecRearm
RearmMaxTime == 3000    \* the clock of SpecRearm stops here
MaxOver == 2            \* SpecSend: titles and messages up to MaxOver characters about a limit
LiveDispatch == 2       \* dispatch() calls per behaviour of SpecLive
LiveFlush == 1          \* flush() calls per behaviour of SpecLive
LiveServices == 1       \* SpecLive enables the first LiveServices of ServiceNames
LiveMaxTime == 6000     \* the clock of SpecLive stops here
MaxLogCalls == 2        \* logger.error()/logger.warn() calls per behaviour of SpecLog
MaxRotated == 5         \* SpecLog starts with KeepRotated-1..MaxRotated rotated log files

\* ------------------------------------------------------- program constants
DedupWindowMs == 500
ServiceTimeoutMs == 5000
DebounceWindowMs == 1000
KeepRotated == 4
PushoverMessageLimit == 1024
PushoverTitleLimit == 250
TelegramTextLimit == 4096
TelegramTitleBudget == 250
TelegramMessageBudget == 3840
SlackTextLimit == 40000
DiscordContentLimit == 2000

EventType == {"complete", "subagent_complete", "error", "permission", "question"}
\* a set of immediate events that lacks permission
OnlyErrorImmediate == {"error"}

\* every event type is immediate and goes through the dedup
AllEventsImmediate == EventType

\* no immediate events: every event type waits in the delay queue
NoImmediateEvents == {}

IMMEDIATE_EVENTS == {"error", "permission"}
ServiceNames == <<"Pushover", "Telegram", "Slack", "Discord">>

NoPayload == [eventType |-> "none", id |-> 0]

VARIABLES
  config,            \* [delay, enabled]: the configuration createDispatcher got
  loggerRaises,      \* whether logger.error throws
  throwing,          \* the services whose send throws before it returns a promise
  now,               \* Date.now()
  pendingTimers,     \* Map<EventType, {timer, payload}> in insertion order
  lastImmediateTime, \* Map<EventType, number>
  timers,            \* the live timers of the runtime (setTimeout not yet fired or cleared)
  nextTimerId,       \* the handle the next setTimeout returns
  fanouts,           \* every sendToServices call so far, in start order
  calls,             \* every dispatch()/flush() call so far, with its promise
  text,              \* truncate: the text argument, a sequence of characters
  maxLength,         \* truncate: the maxLength argument
  from,              \* truncate: the direction argument
  result,            \* truncate: << >> before the call, <<the string returned>> after
  events,            \* plugin: config.events, a flag per event type
  hook,              \* plugin: the hook invocation under way, with what it did so far
  logger,            \* logger: the closure of createLogger, the log file and the calls made
  request            \* services: the payload handed to a send and the body it built

\* the arguments and the result of the call of truncate
truncVars == <<text, maxLength, from, result>>

\* the state of the plugin's hooks
hookVars == <<events, hook>>

vars == <<config, loggerRaises, throwing, now, pendingTimers, lastImmediateTime,
          timers, nextTimerId, fanouts, calls, truncVars, hookVars, logger, request>>

Max(a, b) == IF a >= b THEN a ELSE b

Min(a, b) == IF a <= b THEN a ELSE b

\* ---------------------------------------------------------------- truncate
\* the characters texts are made of
Chars == {"a", "b", "."}

TruncationMode == {"start", "end"}

\* String.prototype.slice(start, end) on a sequence of characters
Slice(s, start, end) ==
  LET a == IF start < 0 THEN Max(Len(s) + start, 0) ELSE Min(start, Len(s))
      b == IF end < 0 THEN Max(Len(s) + end, 0) ELSE Min(end, Len(s))
  IN  SubSeq(s, a + 1, b)

indicator == <<".", ".", ".">>

\* text.length < maxLength instead of <=: a text that just fits is cut
truncateStrict(t, m, f) ==
  IF Len(t) < m THEN t
  ELSE IF m <= Len(indicator) THEN indicator
  ELSE IF f = "start"
    THEN indicator \o Slice(t, Len(t) - (m - Len(indicator)), Len(t))
    ELSE Slice(t, 0, m - Len(indicator)) \o indicator

\* a cut that keeps maxLength characters and then appends the indicator
truncateLong(t, m, f) ==
  IF Len(t) <= m THEN t
  ELSE IF m <= Len(indicator) THEN indicator
  ELSE IF f = "start"
    THEN indicator \o Slice(t, Len(t) - m, Len(t))
    ELSE Slice(t, 0, m) \o indicator

\* the direction ignored: a truncation from the start keeps the head too
truncateKeepsHead(t, m, f) ==
  IF Len(t) <= m THEN t
  ELSE IF m <= Len(indicator) THEN indicator
  ELSE IF f = "start"
    THEN indicator \o Slice(t, 0, m - Len(indicator))
    ELSE Slice(t, 0, m - Len(indicator)) \o indicator

\* without the test maxLength <= indicator.length: slice gets a negative index
truncateNoTinyGuard(t, m, f) ==
  IF Len(t) <= m THEN t
  ELSE IF f = "start"
    THEN indicator \o Slice(t, Len(t) - (m - Len(indicator)), Len(t))
    ELSE Slice(t, 0, m - Len(indicator)) \o indicator

truncate(t, m, f) ==
  IF Len(t) <= m THEN t
  ELSE IF m <= Len(indicator) THEN indicator
  ELSE IF f = "start"
    THEN indicator \o Slice(t, Len(t) - (m - Len(indicator)), Len(t))
    ELSE Slice(t, 0, m - Len(indicator)) \o indicator

\* config.delay || 120 instead of config.delay ?? 120: 0 becomes the default
DelayMsOrDefault(cfg) == IF cfg.delay = 0 THEN 120000 ELSE Max(0, cfg.delay \div 10) * 1000

\* the floor without Math.max(0, ...): a negative delay stays negative
DelayMsNoMax(cfg) == (cfg.delay \div 10) * 1000

\* config.delay is kept in tenths of a second so that fractional values exist.
DelayMs(cfg) == Max(0, cfg.delay \div 10) * 1000

delayMs == DelayMs(config)

\* Pushover pushed without a look at config.pushover.enabled
ServicesPushoverAlways(cfg) ==
  SelectSeq(ServiceNames, LAMBDA s : s = "Pushover" \/ cfg.enabled[s])

\* the services array, in the order createDispatcher pushes them
Services(cfg) == SelectSeq(ServiceNames, LAMBDA s : cfg.enabled[s])

services == Services(config)

Enabled == {services[i] : i \in 1..Len(services)}

IndexOf(s) == CHOOSE i \in 1..Len(services) : services[i] = s

\* --------------------------------------------------------------- Map, timers
MapHas(m, k) == \E i \in 1..Len(m) : m[i].key = k

MapGet(m, k) == m[CHOOSE i \in 1..Len(m) : m[i].key = k]

\* a delete that leaves the entry in the map
MapDeleteNothing(m, k) == m

\* a delete that empties the map
MapDeleteAll(m, k) == << >>

MapDelete(m, k) == SelectSeq(m, LAMBDA e : e.key # k)

MapSet(m, k, v) ==
  IF MapHas(m, k)
    THEN [i \in 1..Len(m) |-> IF m[i].key = k THEN v ELSE m[i]]
    ELSE Append(m, v)

ClearTimeout(ts, id) == {t \in ts : t.id # id}

\* a replacement that keeps the deadline of the entry it replaces: the wait of
\* an event type is bounded by the delay after its first dispatch
DelayTimerKeepsDue(id, payload) ==
  [id |-> id, kind |-> "delay",
   due |-> IF MapHas(pendingTimers, payload.eventType)
             THEN LET old == MapGet(pendingTimers, payload.eventType).timer
                  IN  (CHOOSE t \in timers : t.id = old).due
             ELSE now + delayMs,
   payload |-> payload, fanout |-> 0, service |-> "none"]

\* setTimeout(callback) without the delay: the timer is due at once
DelayTimerNow(id, payload) ==
  [id |-> id, kind |-> "delay", due |-> now, payload |-> payload,
   fanout |-> 0, service |-> "none"]

\* the timer setTimeout(callback, delayMs) arms
DelayTimer(id, payload) ==
  [id |-> id, kind |-> "delay", due |-> now + delayMs, payload |-> payload,
   fanout |-> 0, service |-> "none"]

DeadlineTimer(id, f, s) ==
  [id |-> id, kind |-> "deadline", due |-> now + ServiceTimeoutMs,
   payload |-> NoPayload, fanout |-> f, service |-> s]

\* ------------------------------------------------------------- sendToServices
\* Promise.all instead: rejects as soon as one of the promises is rejected
PromiseAll(ps) ==
  IF \E x \in DOMAIN ps : ps[x] = "rejected" THEN "rejected"
  ELSE IF \E x \in DOMAIN ps : ps[x] = "pending" THEN "pending" ELSE "fulfilled"

\* Promise.race instead: settles as soon as one of the promises has settled
PromiseRace(ps) ==
  IF \A x \in DOMAIN ps : ps[x] = "pending" THEN "pending" ELSE "fulfilled"

\* Promise.allSettled over the promises in ps (a function to promise states)
AllSettled(ps) ==
  IF \E x \in DOMAIN ps : ps[x] = "pending" THEN "pending" ELSE "fulfilled"

\* a loop over the services that a throwing send leaves: the later ones are skipped
InvocationsUntilThrow(thrown) ==
  [s \in Enabled |-> IF \E r \in thrown : IndexOf(r) < IndexOf(s) THEN 0 ELSE 1]

\* how often service.send is called for each service by services.map
Invocations(thrown) == [s \in Enabled |-> 1]

\* the services whose call of send throws synchronously
Thrown == throwing \cap Enabled

\* results.forEach: logger.error once per rejected result, in index order;
\* a throwing logger ends the loop at the first rejected result
LogFailures(att) ==
  LET rej == {s \in DOMAIN att : att[s] = "rejected"}
      first == CHOOSE s \in rej : \A r \in rej : IndexOf(s) <= IndexOf(r)
  IN  [s \in DOMAIN att |->
         IF s \in rej /\ (loggerRaises => s = first) THEN 1 ELSE 0]

\* results.forEach stopping at the last result: the later failures go unrecorded
LogRecordsButLast(att, reason) ==
  LET rej == SelectSeq(services, LAMBDA s : att[s] = "rejected" /\ IndexOf(s) < Len(services))
  IN  [i \in 1..Len(rej) |-> [name |-> rej[i], reason |-> reason[rej[i]]]]

\* the messages logger.error is called with, `${services[index].name} failed:
\* ${errorMsg}`, in the order of the calls
LogRecords(att, reason) ==
  LET rej == SelectSeq(services, LAMBDA s : att[s] = "rejected")
      n == IF loggerRaises /\ Len(rej) > 0 THEN 1 ELSE Len(rej)
  IN  [i \in 1..n |-> [name |-> rej[i], reason |-> reason[rej[i]]]]

\* the part of sendToServices after `await Promise.allSettled(promises)`
Continue(rec) ==
  IF rec.state # "pending" THEN rec
  ELSE LET agg == AllSettled(rec.att) IN
       IF agg = "pending" THEN rec
       ELSE IF agg = "rejected" THEN [rec EXCEPT !.state = "rejected"]
       ELSE [rec EXCEPT
               !.logged = LogFailures(rec.att),
               !.log = LogRecords(rec.att, rec.reason),
               !.state = IF loggerRaises /\ \E s \in DOMAIN rec.att : rec.att[s] = "rejected"
                           THEN "rejected" ELSE "fulfilled"]

\* sendToServices(payload) up to its await, on the world w = [fanouts, timers,
\* nextTimerId]
SendToServices(w, payload, origin, call) ==
  IF Len(services) = 0
    THEN [w EXCEPT !.fanouts = Append(@,
            [payload |-> payload, origin |-> origin, call |-> call,
             ncalls |-> IF call = 0 THEN Len(calls) ELSE call, at |-> now,
             att |-> << >>, aborted |-> << >>, timeoutId |-> << >>,
             invoked |-> << >>, logged |-> << >>, reason |-> << >>, log |-> << >>,
             state |-> "fulfilled"])]
    ELSE
      LET fid == Len(w.fanouts) + 1
          tid(s) == w.nextTimerId + IndexOf(s) - 1
          rec == [payload |-> payload, origin |-> origin, call |-> call,
                  ncalls |-> IF call = 0 THEN Len(calls) ELSE call, at |-> now,
                  att |-> [s \in Enabled |-> IF s \in Thrown THEN "rejected" ELSE "pending"],
                  aborted |-> [s \in Enabled |-> FALSE],
                  timeoutId |-> [s \in Enabled |-> tid(s)],
                  invoked |-> Invocations(Thrown),
                  logged |-> [s \in Enabled |-> 0],
                  reason |-> [s \in Enabled |-> IF s \in Thrown THEN "thrown" ELSE "none"],
                  log |-> << >>,
                  state |-> "pending"]
      IN  [fanouts |-> Append(w.fanouts, Continue(rec)),
           timers |-> w.timers \cup {DeadlineTimer(tid(s), fid, s) : s \in Enabled \ Thrown},
           nextTimerId |-> w.nextTimerId + Len(services)]

World == [fanouts |-> fanouts, timers |-> timers, nextTimerId |-> nextTimerId]

\* the promises of the calls that await fan-outs: dispatch awaits its
\* sendToServices, flush awaits Promise.allSettled(flushPromises)
Await(call, fs) ==
  IF call.status # "pending" THEN call
  ELSE IF call.op = "dispatch"
    THEN IF call.fanouts = {} THEN [call EXCEPT !.status = "fulfilled"]
         ELSE LET f == CHOOSE f \in call.fanouts : TRUE
              IN  [call EXCEPT !.status = fs[f].state]
    ELSE [call EXCEPT !.status = AllSettled([f \in call.fanouts |-> fs[f].state])]

Resume(cs, fs) == [i \in 1..Len(cs) |-> Await(cs[i], fs)]

NumCalls(op) == Cardinality({i \in 1..Len(calls) : calls[i].op = op})

\* ------------------------------------------------------------------- Init
\* the configurations that enable the first k services, k in ks
Config(delays, ks) ==
  {[delay |-> d,
    enabled |-> [s \in {ServiceNames[i] : i \in 1..Len(ServiceNames)} |->
                   \E i \in 1..k : ServiceNames[i] = s]] :
     d \in delays, k \in ks}

\* no hook has been invoked
NoHook ==
  [name |-> "none", type |-> "none", tool |-> "none", sessionID |-> "null",
   pc |-> "idle", base |-> "none", isSubagent |-> FALSE, elapsedSeconds |-> "null",
   session |-> << >>, dispatched |-> << >>, settled |-> "none", logged |-> << >>,
   status |-> "none"]

\* no payload was handed to a service: title and message are lengths, body the
\* fields of the request once send has built it
NoRequest ==
  [service |-> "none", title |-> 0, message |-> 0, truncateFrom |-> "end", body |-> << >>]

\* the logger before createLogger ran
NoLogger ==
  [enabled |-> FALSE, level |-> "warn", mkdirFailed |-> FALSE, disabled |-> FALSE,
   file |-> "absent", rotated |-> 0, appended |-> << >>, console |-> << >>,
   thrown |-> "none", calls |-> << >>]

\* DEFAULT_CONFIG.events: every event type enabled
DefaultEvents == [c \in EventType |-> "true"]

InitWith(delays, ks, raises, throwsets) ==
  /\ config \in Config(delays, ks)
  /\ loggerRaises \in raises
  /\ throwing \in throwsets
  /\ now = StartTime
  /\ pendingTimers = << >>
  /\ lastImmediateTime = << >>
  /\ timers = {}
  /\ nextTimerId = 1
  /\ fanouts = << >>
  /\ calls = << >>
  /\ text = << >>
  /\ maxLength = 0
  /\ from = "end"
  /\ result = << >>
  /\ events = DefaultEvents
  /\ hook = NoHook
  /\ logger = NoLogger
  /\ request = NoRequest

\* ---------------------------------------------------------------- dispatch
NewCall(payload, path, replaced, fs, status) ==
  [op |-> "dispatch", payload |-> payload, at |-> now, path |-> path,
   replaced |-> replaced, status |-> status, fanouts |-> fs]

NewPayload(c) == [eventType |-> c, id |-> NumCalls("dispatch") + 1]

\* dispatch(payload) with delayMs === 0
DispatchZero(c) ==
  /\ delayMs = 0
  /\ LET w == SendToServices(World, NewPayload(c), "zero", Len(calls) + 1)
     IN  /\ fanouts' = w.fanouts
         /\ timers' = w.timers
         /\ nextTimerId' = w.nextTimerId
         /\ calls' = Resume(Append(calls,
               NewCall(NewPayload(c), "zero", 0, {Len(fanouts) + 1}, "pending")), w.fanouts)
  /\ UNCHANGED <<truncVars, hookVars, logger, request, config, loggerRaises, throwing, now, pendingTimers, lastImmediateTime>>

\* a dedup that never suppresses
NeverDeduped(c) == FALSE

LastTime(c) == IF c \in DOMAIN lastImmediateTime THEN lastImmediateTime[c] ELSE 0

\* a dedup window that takes in a gap of exactly 500 ms
DedupedInclusive(c) == now - LastTime(c) <= DedupWindowMs

\* a dedup that measures the gap in either direction
DedupedEitherWay(c) ==
  now - LastTime(c) < DedupWindowMs /\ LastTime(c) - now < DedupWindowMs

Deduped(c) == now - LastTime(c) < DedupWindowMs

\* dispatch(payload) of an immediate event that the dedup suppresses
DispatchDropped(c) ==
  /\ delayMs # 0
  /\ c \in IMMEDIATE_EVENTS
  /\ Deduped(c)
  /\ calls' = Append(calls, NewCall(NewPayload(c), "dropped", 0, {}, "fulfilled"))
  /\ UNCHANGED <<truncVars, hookVars, logger, request, config, loggerRaises, throwing, now, pendingTimers, lastImmediateTime,
                 timers, nextTimerId, fanouts>>

\* the time is recorded only after the await: a dispatch made while the
\* fan-out is in flight does not see it
RecordAfterAwait(m, c, t) == m

\* lastImmediateTime.set(payload.eventType, now), before the await
Record(m, c, t) == [k \in DOMAIN m \cup {c} |-> IF k = c THEN t ELSE m[k]]

\* dispatch(payload) of an immediate event that is sent
DispatchImmediate(c) ==
  /\ delayMs # 0
  /\ c \in IMMEDIATE_EVENTS
  /\ ~Deduped(c)
  /\ lastImmediateTime' = Record(lastImmediateTime, c, now)
  /\ LET w == SendToServices(World, NewPayload(c), "immediate", Len(calls) + 1)
     IN  /\ fanouts' = w.fanouts
         /\ timers' = w.timers
         /\ nextTimerId' = w.nextTimerId
         /\ calls' = Resume(Append(calls,
               NewCall(NewPayload(c), "immediate", 0, {Len(fanouts) + 1}, "pending")), w.fanouts)
  /\ UNCHANGED <<truncVars, hookVars, logger, request, config, loggerRaises, throwing, now, pendingTimers>>

\* dispatch without clearTimeout(existing.timer)
ReplaceKeepsTimer(ts, m, k) == ts

\* one timer for all event types: a dispatch clears whatever delay timer is armed
ReplaceAnyTimer(ts, m, k) == {t \in ts : t.kind # "delay"}

\* the timers left after dispatch cleared the timer of the existing entry
Replace(ts, m, k) == IF MapHas(m, k) THEN ClearTimeout(ts, MapGet(m, k).timer) ELSE ts

\* dispatch(payload) of a delayable event: replace the pending entry, arm a timer
DispatchDelayed(c) ==
  /\ delayMs # 0
  /\ c \notin IMMEDIATE_EVENTS
  /\ LET replaced == IF MapHas(pendingTimers, c) THEN MapGet(pendingTimers, c).payload.id ELSE 0
     IN  /\ timers' = Replace(timers, pendingTimers, c) \cup {DelayTimer(nextTimerId, NewPayload(c))}
         /\ nextTimerId' = nextTimerId + 1
         /\ pendingTimers' = MapSet(MapDelete(pendingTimers, c), c,
                                    [key |-> c, timer |-> nextTimerId, payload |-> NewPayload(c)])
         /\ calls' = Append(calls, NewCall(NewPayload(c), "delayed", replaced, {}, "fulfilled"))
  /\ UNCHANGED <<truncVars, hookVars, logger, request, config, loggerRaises, throwing, now, lastImmediateTime, fanouts>>

dispatch(c) ==
  \/ DispatchZero(c)
  \/ DispatchDropped(c)
  \/ DispatchImmediate(c)
  \/ DispatchDelayed(c)

\* setInterval instead of setTimeout: the timer stays armed after it fired
FiredStaysArmed(ts, t) == ts

\* a timer of setTimeout fires once: it is gone when its callback runs
Fired(ts, t) == ts \ {t}

\* a timer callback that leaves its entry in the pending map
FireKeepsEntry(m, k) == m

\* pendingTimers.delete(payload.eventType), the first statement of the callback
FireDelete(m, k) == MapDelete(m, k)

\* the callback of a delay timer
DelayTimerFire(t) ==
  /\ t \in timers
  /\ t.kind = "delay"
  /\ now >= t.due
  /\ pendingTimers' = FireDelete(pendingTimers, t.payload.eventType)
  /\ LET w == SendToServices([World EXCEPT !.timers = Fired(timers, t)], t.payload, "timer", 0)
     IN  /\ fanouts' = w.fanouts
         /\ timers' = w.timers
         /\ nextTimerId' = w.nextTimerId
         /\ calls' = Resume(calls, w.fanouts)
  /\ UNCHANGED <<truncVars, hookVars, logger, request, config, loggerRaises, throwing, now, lastImmediateTime>>

\* ------------------------------------------------------------------- flush
\* entries.map((entry) => sendToServices(entry.payload)), from entry i on
RECURSIVE FlushSend(_, _, _, _)
FlushSend(entries, i, w, call) ==
  IF i > Len(entries) THEN w
  ELSE FlushSend(entries, i + 1, SendToServices(w, entries[i].payload, "flush", call), call)

\* flush without clearTimeout(entry.timer)
ClearNone(ts, entries) == ts

\* the timers left after flush cleared the timer of every entry
ClearAll(ts, entries) == {t \in ts : \A i \in 1..Len(entries) : entries[i].timer # t.id}

\* flush without pendingTimers.clear()
MapClearNothing(m) == m

\* pendingTimers.clear()
MapClear(m) == << >>

\* a flush that awaits every fan-out started so far, not only its own
flushPromisesAll(n, k) == 1..(n + k)

\* flushPromises: the k fan-outs flush starts after the n there were
flushPromises(n, k) == (n + 1)..(n + k)

flush ==
  /\ LET entries == pendingTimers
         w == FlushSend(entries, 1, [World EXCEPT !.timers = ClearAll(timers, entries)],
                        Len(calls) + 1)
         call == [op |-> "flush", payload |-> NoPayload, at |-> now, path |-> "flush",
                  replaced |-> 0, status |-> "pending",
                  fanouts |-> flushPromises(Len(fanouts), Len(entries))]
     IN  /\ pendingTimers' = MapClear(pendingTimers)
         /\ fanouts' = w.fanouts
         /\ timers' = w.timers
         /\ nextTimerId' = w.nextTimerId
         /\ calls' = Resume(Append(calls, call), w.fanouts)
  /\ UNCHANGED <<truncVars, hookVars, logger, request, config, loggerRaises, throwing, now, lastImmediateTime>>

\* ------------------------------------------------- service calls, deadlines
\* one AbortController for the whole fan-out: the deadline aborts every attempt
DeadlineFireAll(t) ==
  /\ t \in timers
  /\ t.kind = "deadline"
  /\ now >= t.due
  /\ timers' = timers \ {t}
  /\ fanouts' = [fanouts EXCEPT ![t.fanout].aborted = [s \in DOMAIN @ |-> TRUE]]
  /\ UNCHANGED <<truncVars, hookVars, logger, request, config, loggerRaises, throwing, now, pendingTimers, lastImmediateTime,
                 nextTimerId, calls>>

\* the callback of a deadline timer: controller.abort()
\* a deadline that fires without controller.abort(): the signal stays as it is
DeadlineFireNoAbort(t) ==
  /\ t \in timers
  /\ t.kind = "deadline"
  /\ now >= t.due
  /\ timers' = timers \ {t}
  /\ UNCHANGED <<truncVars, hookVars, logger, request, config, loggerRaises, throwing, now, pendingTimers, lastImmediateTime,
                 nextTimerId, calls, fanouts>>

DeadlineFire(t) ==
  /\ t \in timers
  /\ t.kind = "deadline"
  /\ now >= t.due
  /\ timers' = timers \ {t}
  /\ fanouts' = [fanouts EXCEPT ![t.fanout].aborted[t.service] = TRUE]
  /\ UNCHANGED <<truncVars, hookVars, logger, request, config, loggerRaises, throwing, now, pendingTimers, lastImmediateTime,
                 nextTimerId, calls>>

\* the reason a service call ends with: a call whose signal was aborted rejects
\* with the abort error, any other rejected call with an error of the service
Reason(f, s, outcome) ==
  IF outcome # "rejected" THEN "none"
  ELSE IF fanouts[f].aborted[s] THEN "AbortError" ELSE "Network error"

\* clearTimeout after the await instead of in a finally: a rejected attempt
\* leaves its deadline armed
ClearOnSuccess(ts, id, outcome) == IF outcome = "fulfilled" THEN ClearTimeout(ts, id) ELSE ts

\* finally { clearTimeout(timeoutId) }: whatever the outcome of the attempt
Finally(ts, id, outcome) == ClearTimeout(ts, id)

\* the promise of service.send settles: finally clearTimeout(timeoutId), then
\* whatever awaits the attempt
Settle(f, s, outcome) ==
  /\ f \in 1..Len(fanouts)
  /\ s \in DOMAIN fanouts[f].att
  /\ fanouts[f].att[s] = "pending"
  /\ timers' = Finally(timers, fanouts[f].timeoutId[s], outcome)
  /\ fanouts' = [fanouts EXCEPT ![f] = Continue([@ EXCEPT !.att[s] = outcome, !.reason[s] = Reason(f, s, outcome)])]
  /\ calls' = Resume(calls, fanouts')
  /\ UNCHANGED <<truncVars, hookVars, logger, request, config, loggerRaises, throwing, now, pendingTimers, lastImmediateTime,
                 nextTimerId>>

BackendResolve(f, s) == Settle(f, s, "fulfilled")

BackendReject(f, s) == Settle(f, s, "rejected")

\* -------------------------------------------------------------------- time
Tick(maxTime) ==
  /\ now + TickMs <= maxTime
  /\ now' = now + TickMs
  /\ UNCHANGED <<truncVars, hookVars, logger, request, config, loggerRaises, throwing, pendingTimers, lastImmediateTime, timers,
                 nextTimerId, fanouts, calls>>

\* the wall clock is set back: Date.now() returns less than it did
ClockBack ==
  /\ now - TickMs >= StartTime
  /\ now' = now - TickMs
  /\ UNCHANGED <<truncVars, hookVars, logger, request, config, loggerRaises, throwing, pendingTimers, lastImmediateTime, timers,
                 nextTimerId, fanouts, calls>>

\* ---------------------------------------------------------- specifications
Calls(maxDispatch) ==
  /\ NumCalls("dispatch") < maxDispatch
  /\ \E c \in EventType : dispatch(c)

Flushes(maxFlush) ==
  /\ NumCalls("flush") < maxFlush
  /\ flush

Timers ==
  \/ \E t \in timers : DelayTimerFire(t)
  \/ \E t \in timers : DeadlineFire(t)

Backends ==
  \/ \E f \in 1..Len(fanouts) : \E s \in Enabled : BackendResolve(f, s)
  \/ \E f \in 1..Len(fanouts) : \E s \in Enabled : BackendReject(f, s)

\* any delay, at most MaxServices services, a clock that stops before a deadline
Init == InitWith({10 * d : d \in 0..MaxDelaySec}, 0..MaxServices, {FALSE}, {{}})

Next ==
  \/ Calls(MaxDispatch)
  \/ Flushes(MaxFlush)
  \/ \E t \in timers : DelayTimerFire(t)
  \/ Backends
  \/ Tick(MaxTime)

Spec == Init /\ [][Next]_vars

\* a burst of delayable events under a positive delay, one service
CallsDelayed(maxDispatch) ==
  /\ NumCalls("dispatch") < maxDispatch
  /\ \E c \in EventType \ IMMEDIATE_EVENTS : DispatchDelayed(c)

InitBurst == InitWith({10 * d : d \in 1..MaxDelaySec}, {1}, {FALSE}, {{}})

NextBurst ==
  \/ CallsDelayed(BurstDispatch)
  \/ Flushes(BurstFlush)
  \/ \E t \in timers : DelayTimerFire(t)
  \/ Backends
  \/ Tick(MaxTime)

SpecBurst == InitBurst /\ [][NextBurst]_vars

\* a burst of immediate events under a positive delay, one service
CallsImmediate(maxDispatch) ==
  /\ NumCalls("dispatch") < maxDispatch
  /\ \E c \in IMMEDIATE_EVENTS : DispatchDropped(c) \/ DispatchImmediate(c)

InitDedup == InitWith({10 * d : d \in 1..MaxDelaySec}, {1}, {FALSE}, {{}})

NextDedup ==
  \/ CallsImmediate(DedupDispatch)
  \/ Backends
  \/ Tick(MaxTime)

SpecDedup == InitDedup /\ [][NextDedup]_vars

\* every operation, any delay, one service, a wall clock that can be set back
InitClock == InitWith({10 * d : d \in 0..MaxDelaySec}, {1}, {FALSE}, {{}})

NextClock ==
  \/ Calls(ClockDispatch)
  \/ Flushes(ClockFlush)
  \/ \E t \in timers : DelayTimerFire(t)
  \/ Backends
  \/ Tick(MaxTime)
  \/ ClockBack

SpecClock == InitClock /\ [][NextClock]_vars

\* delayable events under a positive delay, one service, and a clock that runs
\* long enough for a timer armed after a timer fired to fire too
InitRearm == InitWith({10 * d : d \in 1..MaxDelaySec}, {1}, {FALSE}, {{}})

NextRearm ==
  \/ CallsDelayed(RearmDispatch)
  \/ \E t \in timers : DelayTimerFire(t)
  \/ Backends
  \/ Tick(RearmMaxTime)

SpecRearm == InitRearm /\ [][NextRearm]_vars

\* a backend whose signal was aborted rejects, as fetch does
AbortedReject(f, s) ==
  /\ f \in 1..Len(fanouts)
  /\ s \in DOMAIN fanouts[f].aborted
  /\ fanouts[f].aborted[s]
  /\ BackendReject(f, s)

\* the calls are made early enough for the deadlines of their attempts to fall
\* within the clock of the model
InTime == now + ServiceTimeoutMs <= LiveMaxTime

InitLive == InitWith({10 * d : d \in 0..MaxDelaySec}, {LiveServices}, {FALSE}, {{}})

NextLive ==
  \/ InTime /\ Calls(LiveDispatch)
  \/ InTime /\ Flushes(LiveFlush)
  \/ \E t \in timers : DelayTimerFire(t)
  \/ \E t \in timers : DeadlineFire(t)
  \/ Backends
  \/ Tick(LiveMaxTime)

\* the clock moves on, a timer that is due fires, and a backend rejects once
\* its signal is aborted; a backend may also settle before, but need not
Fairness ==
  /\ WF_vars(Tick(LiveMaxTime))
  /\ WF_vars(\E t \in timers : DeadlineFire(t))
  /\ WF_vars(\E f \in 1..Len(fanouts) : \E s \in Enabled : AbortedReject(f, s))

SpecLive == InitLive /\ [][NextLive]_vars /\ Fairness

\* FanoutServices services that resolve, reject, throw or run into their deadline
InitFanout ==
  InitWith({10 * d : d \in 0..MaxDelaySec}, {FanoutServices}, {FALSE},
           SUBSET {ServiceNames[i] : i \in 1..FanoutServices})

NextFanout ==
  \/ Calls(FanoutDispatch)
  \/ Flushes(FanoutFlush)
  \/ Timers
  \/ Backends
  \/ Tick(FanoutMaxTime)

SpecFanout == InitFanout /\ [][NextFanout]_vars

\* one service that resolves, rejects, throws or runs into its deadline, and a
\* logger whose error() may throw
InitLogger ==
  InitWith({10 * d : d \in 0..MaxDelaySec}, {LoggerServices}, BOOLEAN,
           SUBSET {ServiceNames[i] : i \in 1..LoggerServices})

NextLogger ==
  \/ Calls(LoggerDispatch)
  \/ Flushes(LoggerFlush)
  \/ Timers
  \/ Backends
  \/ Tick(FanoutMaxTime)

SpecLogger == InitLogger /\ [][NextLogger]_vars

\* delays from -MaxHalfSec/2 to MaxHalfSec/2 seconds in steps of half a second
InitDelay ==
  InitWith({5 * h : h \in -MaxHalfSec..MaxHalfSec}, {MaxServices}, {FALSE}, {{}})

SpecDelay == InitDelay /\ [][Next]_vars

\* the call truncate(text, maxLength, from)
Truncate ==
  /\ result = << >>
  /\ result' = <<truncate(text, maxLength, from)>>
  /\ UNCHANGED <<config, loggerRaises, throwing, now, pendingTimers, lastImmediateTime,
                 timers, nextTimerId, fanouts, calls, text, maxLength, from, hookVars, logger, request>>

\* every text of at most MaxTextLen characters, every maxLength up to
\* MaxTextLen, both directions; the dispatcher takes no part
InitTruncate ==
  /\ config \in Config({0}, {0})
  /\ loggerRaises = FALSE
  /\ throwing = {}
  /\ now = StartTime
  /\ pendingTimers = << >>
  /\ lastImmediateTime = << >>
  /\ timers = {}
  /\ nextTimerId = 1
  /\ fanouts = << >>
  /\ calls = << >>
  /\ text \in UNION {[1..n -> Chars] : n \in 0..MaxTextLen}
  /\ maxLength \in 0..MaxTextLen
  /\ from \in TruncationMode
  /\ result = << >>
  /\ events = DefaultEvents
  /\ hook = NoHook
  /\ logger = NoLogger
  /\ request = NoRequest

SpecTruncate == InitTruncate /\ [][Truncate]_vars

\* ------------------------------------------------------------- plugin hooks
\* the values a flag of config.events can have after the configuration files
\* were merged over the defaults
Flags == {"true", "false", "null"}

isEventEnabled(c) == events[c] # "false"

HostEventTypes == {"session.idle", "session.error", "permission.updated", "session.updated"}

Tools == {"question", "bash"}

\* no session, a main session, and the session of a subagent, which has a
\* parentID
SessionIDs == {"null", "ses_main", "ses_sub"}

\* the NotificationPayload buildPayload returns for the invocation h
Payload(h) ==
  [eventType |-> IF h.base = "complete" /\ h.isSubagent THEN "subagent_complete" ELSE h.base,
   sessionID |-> h.sessionID,
   elapsedSeconds |-> h.elapsedSeconds]

\* the subagent filter of the event hook left out
AfterBuildUnfiltered(h) ==
  [h EXCEPT !.pc = "dispatch", !.dispatched = Append(@, Payload(h))]

\* what the hook does with the payload buildPayload returned: the event hook
\* drops a subagent_complete that is disabled, everything else is dispatched
AfterBuild(h) ==
  IF /\ h.name = "event" /\ h.type = "session.idle"
     /\ Payload(h).eventType = "subagent_complete"
     /\ ~isEventEnabled("subagent_complete")
    THEN [h EXCEPT !.pc = "done", !.status = "resolved"]
    ELSE [h EXCEPT !.pc = "dispatch", !.dispatched = Append(@, Payload(h))]

\* buildPayload(eventType, sessionID) up to its first await
buildPayload(h, c) ==
  LET b == [h EXCEPT !.base = c, !.status = "pending"]
  IN  IF h.sessionID = "null" THEN AfterBuild(b) ELSE [b EXCEPT !.pc = "get"]

\* a hook that returns at once
Return(h) == [h EXCEPT !.pc = "done", !.status = "resolved"]

NewHook(name, type, tool, sid) ==
  [NoHook EXCEPT !.name = name, !.type = type, !.tool = tool, !.sessionID = sid]

eventHook(type, sid) ==
  /\ hook.pc = "idle"
  /\ LET h == NewHook("event", type, "none", sid)
         c == CASE type = "session.idle" -> "complete"
                [] type = "session.error" -> "error"
                [] type = "permission.updated" -> "permission"
                [] OTHER -> "none"
     IN  hook' = IF c = "none" \/ ~isEventEnabled(c) THEN Return(h) ELSE buildPayload(h, c)
  /\ UNCHANGED <<truncVars, events, logger, request, config, loggerRaises, throwing, now, pendingTimers,
                 lastImmediateTime, timers, nextTimerId, fanouts, calls>>

permissionAskHook(sid) ==
  /\ hook.pc = "idle"
  /\ LET h == NewHook("permission.ask", "none", "none", sid)
     IN  hook' = IF ~isEventEnabled("permission") THEN Return(h)
                 ELSE buildPayload(h, "permission")
  /\ UNCHANGED <<truncVars, events, logger, request, config, loggerRaises, throwing, now, pendingTimers,
                 lastImmediateTime, timers, nextTimerId, fanouts, calls>>

toolExecuteBeforeHook(tool, sid) ==
  /\ hook.pc = "idle"
  /\ LET h == NewHook("tool.execute.before", "none", tool, sid)
     IN  hook' = IF ~isEventEnabled("question") \/ tool # "question" THEN Return(h)
                 ELSE buildPayload(h, "question")
  /\ UNCHANGED <<truncVars, events, logger, request, config, loggerRaises, throwing, now, pendingTimers,
                 lastImmediateTime, timers, nextTimerId, fanouts, calls>>

\* a failed client.session.get that is not caught: the hook's promise is rejected
SessionGetFailedRethrows(h) == [h EXCEPT !.pc = "done", !.status = "rejected"]

\* the catch of buildPayload after client.session.get threw: no enrichment
SessionGetFailed(h) == AfterBuild(h)

\* client.session.get settles: with the data of the session or by failing
SessionGet(outcome) ==
  /\ hook.pc = "get"
  /\ LET h == [hook EXCEPT !.session = Append(@, outcome)]
     IN  hook' = IF outcome = "throws" THEN SessionGetFailed(h)
                 ELSE [h EXCEPT !.isSubagent = (h.sessionID = "ses_sub"), !.pc = "messages"]
  /\ UNCHANGED <<truncVars, events, logger, request, config, loggerRaises, throwing, now, pendingTimers,
                 lastImmediateTime, timers, nextTimerId, fanouts, calls>>

\* client.session.messages settles: with a first user message that has a
\* creation time, without one, or the call fails
SessionMessages(outcome) ==
  /\ hook.pc = "messages"
  /\ LET h == [hook EXCEPT !.session = Append(@, outcome)]
     IN  hook' = IF outcome = "timed" THEN AfterBuild([h EXCEPT !.elapsedSeconds = "seconds"])
                 ELSE AfterBuild(h)
  /\ UNCHANGED <<truncVars, events, logger, request, config, loggerRaises, throwing, now, pendingTimers,
                 lastImmediateTime, timers, nextTimerId, fanouts, calls>>

\* a hook without the try/catch around its body
DispatchFailedRethrows(h) ==
  [h EXCEPT !.pc = "done", !.status = "rejected", !.settled = "rejected"]

\* the catch of the hook: console.error and logger.error, no rethrow
DispatchFailed(h) ==
  [h EXCEPT !.pc = "done", !.status = "resolved", !.settled = "rejected",
            !.logged = Append(@, h.name)]

\* the promise of dispatch(payload) settles
DispatchSettles(outcome) ==
  /\ hook.pc = "dispatch"
  /\ hook' = IF outcome = "rejected" THEN DispatchFailed(hook)
             ELSE [hook EXCEPT !.pc = "done", !.status = "resolved", !.settled = "fulfilled"]
  /\ UNCHANGED <<truncVars, events, logger, request, config, loggerRaises, throwing, now, pendingTimers,
                 lastImmediateTime, timers, nextTimerId, fanouts, calls>>

\* every configuration of the event flags; the dispatcher is seen through the
\* promise of dispatch alone
InitHooks ==
  /\ config \in Config({0}, {0})
  /\ loggerRaises = FALSE
  /\ throwing = {}
  /\ now = StartTime
  /\ pendingTimers = << >>
  /\ lastImmediateTime = << >>
  /\ timers = {}
  /\ nextTimerId = 1
  /\ fanouts = << >>
  /\ calls = << >>
  /\ text = << >>
  /\ maxLength = 0
  /\ from = "end"
  /\ result = << >>
  /\ events \in [EventType -> Flags]
  /\ hook = NoHook
  /\ logger = NoLogger
  /\ request = NoRequest

NextHooks ==
  \/ \E type \in HostEventTypes, sid \in SessionIDs : eventHook(type, sid)
  \/ \E sid \in SessionIDs : permissionAskHook(sid)
  \/ \E tool \in Tools, sid \in SessionIDs : toolExecuteBeforeHook(tool, sid)
  \/ \E outcome \in {"data", "throws"} : SessionGet(outcome)
  \/ \E outcome \in {"timed", "empty", "throws"} : SessionMessages(outcome)
  \/ \E outcome \in {"fulfilled", "rejected"} : DispatchSettles(outcome)

SpecHooks == InitHooks /\ [][NextHooks]_vars

\* ------------------------------------------------------------------ logger
\* the operations of FsDeps that writeLog reaches
FsOps == {"statSync", "renameSync", "readdirSync", "unlinkSync", "appendFileSync"}

\* config.log.level || "warn"
Levels == {"warn", "error"}

\* the log file as statSync sees it: missing, younger or older than seven days
FileStates == {"absent", "fresh", "old"}

\* an operation throws: the rest of the try block is skipped
Throw(l, e) == [l EXCEPT !.thrown = e]

\* a catch block that prints and lets the exception go on
CatchRethrows(l, msgs) == [l EXCEPT !.console = @ \o msgs]

\* a catch block: the exception ends here, console.error prints msgs
Catch(l, msgs) == [l EXCEPT !.thrown = "none", !.console = @ \o msgs]

\* createLogger with logging enabled or not, a level, an mkdirSync that fails
\* or not, and the log directory as it finds it
createLogger(enabled, level, mkdirFails, file, rotated) ==
  [NoLogger EXCEPT !.enabled = enabled,
                   !.level = level,
                   !.mkdirFailed = enabled /\ mkdirFails,
                   !.disabled = enabled /\ mkdirFails,
                   !.console = IF enabled /\ mkdirFails
                               THEN <<"Failed to create log directory">> ELSE << >>,
                   !.file = file,
                   !.rotated = rotated]

\* readdirSync, then unlinkSync of the oldest rotated files while more than
\* KeepRotated are left
cleanupRotatedFiles(l, fails) ==
  LET body == IF "readdirSync" \in fails THEN Throw(l, "readdirSync")
              ELSE IF l.rotated > KeepRotated
                   THEN IF "unlinkSync" \in fails THEN Throw(l, "unlinkSync")
                        ELSE [l EXCEPT !.rotated = KeepRotated]
                   ELSE l
  IN  IF body.thrown # "none" THEN Catch(body, <<"Cleanup failed">>) ELSE body

\* statSync, and for a file older than seven days renameSync and the cleanup;
\* a missing file (ENOENT) is caught without a word
rotateIfNeeded(l, fails) ==
  LET body == IF "statSync" \in fails THEN Throw(l, "statSync")
              ELSE IF l.file = "absent" THEN Throw(l, "ENOENT")
              ELSE IF l.file = "old"
                   THEN IF "renameSync" \in fails THEN Throw(l, "renameSync")
                        ELSE cleanupRotatedFiles(
                               [l EXCEPT !.file = "absent", !.rotated = @ + 1], fails)
                   ELSE l
  IN  IF body.thrown # "none"
      THEN Catch(body, IF body.thrown # "ENOENT" THEN <<"Rotation check failed">> ELSE << >>)
      ELSE body

\* writeLog(levelStr, msg): nothing when disabled, else the rotation check and
\* appendFileSync, which creates the file or renews its mtime
writeLog(l, levelStr, fails) ==
  LET r    == rotateIfNeeded(l, fails)
      body == IF r.thrown # "none" THEN r
              ELSE IF "appendFileSync" \in fails THEN Throw(r, "appendFileSync")
              ELSE [r EXCEPT !.file = "fresh", !.appended = Append(@, levelStr)]
  IN  IF l.disabled THEN l
      ELSE IF body.thrown # "none" THEN Catch(body, <<"Log write failed">>)
      ELSE body

\* the call of a method of the logger is over: what the caller saw of it
Returned(l, after, method, fails) ==
  [after EXCEPT !.thrown = "none",
                !.calls = Append(@, [method |-> method, fails |-> fails,
                                     wrote  |-> Len(after.appended) > Len(l.appended),
                                     raised |-> after.thrown # "none"])]

LoggerIdle ==
  UNCHANGED <<config, loggerRaises, throwing, now, pendingTimers, lastImmediateTime,
              timers, nextTimerId, fanouts, calls, truncVars, hookVars, request>>

\* logger.error(msg) while the operations in fails throw
error(fails) ==
  /\ Len(logger.calls) < MaxLogCalls
  /\ logger' = Returned(logger,
                        IF logger.enabled THEN writeLog(logger, "ERROR", fails) ELSE logger,
                        "error", fails)
  /\ LoggerIdle

\* logger.warn(msg) while the operations in fails throw
warn(fails) ==
  /\ Len(logger.calls) < MaxLogCalls
  /\ logger' = Returned(logger,
                        IF logger.enabled /\ logger.level # "error"
                        THEN writeLog(logger, "WARN", fails) ELSE logger,
                        "warn", fails)
  /\ LoggerIdle

\* more than seven days pass without a write to the log file
Age ==
  /\ logger.file = "fresh"
  /\ logger' = [logger EXCEPT !.file = "old"]
  /\ LoggerIdle

\* every logger createLogger can return, over every state of the log
\* directory; the dispatcher takes no part
InitLog ==
  /\ config \in Config({0}, {0})
  /\ loggerRaises = FALSE
  /\ throwing = {}
  /\ now = StartTime
  /\ pendingTimers = << >>
  /\ lastImmediateTime = << >>
  /\ timers = {}
  /\ nextTimerId = 1
  /\ fanouts = << >>
  /\ calls = << >>
  /\ text = << >>
  /\ maxLength = 0
  /\ from = "end"
  /\ result = << >>
  /\ events = DefaultEvents
  /\ hook = NoHook
  /\ request = NoRequest
  /\ logger \in {createLogger(e, lv, m, f, r) :
                   e \in BOOLEAN, lv \in Levels, m \in BOOLEAN, f \in FileStates,
                   r \in (KeepRotated - 1)..MaxRotated}

NextLog ==
  \/ \E fails \in SUBSET FsOps : error(fails)
  \/ \E fails \in SUBSET FsOps : warn(fails)
  \/ Age

SpecLog == InitLog /\ [][NextLog]_vars

\* ---------------------------------------------------------------- services
\* a text of n characters
Text(n) == [i \in 1..n |-> "a"]

\* formatMessage of the Telegram service: `<b>${title}</b>\n${message}` with the
\* title cut to 250 and the message to 3840 characters
formatMessage(title, message) ==
  <<"<", "b", ">">> \o truncate(title, TelegramTitleBudget, "end")
    \o <<"<", "/", "b", ">", "\n">> \o truncate(message, TelegramMessageBudget, "end")

\* formatSlackMessage: `*${title}*\n${message}`
formatSlackMessage(title, message) == <<"*">> \o title \o <<"*", "\n">> \o message

\* formatDiscordMessage: `**${title}**\n${message}`
formatDiscordMessage(title, message) ==
  <<"*", "*">> \o title \o <<"*", "*", "\n">> \o message

\* the texts each service puts in the body of its request
Body(service, title, message, f) ==
  CASE service = "Pushover" ->
         [message |-> truncate(message, PushoverMessageLimit, f),
          title   |-> truncate(title, PushoverTitleLimit, f)]
    [] service = "Telegram" -> [text |-> formatMessage(title, message)]
    [] service = "Slack" ->
         [text |-> truncate(formatSlackMessage(title, message), SlackTextLimit, "end")]
    [] service = "Discord" ->
         [content |-> truncate(formatDiscordMessage(title, message), DiscordContentLimit, f)]

\* send(config, payload, signal) of a service, up to its fetch
send(service) ==
  /\ request.service = "none"
  /\ request' = [request EXCEPT
                   !.service = service,
                   !.body = Body(service, Text(request.title), Text(request.message),
                                 request.truncateFrom)]
  /\ UNCHANGED <<config, loggerRaises, throwing, now, pendingTimers, lastImmediateTime,
                 timers, nextTimerId, fanouts, calls, truncVars, hookVars, logger>>

\* the lengths about a limit
About(limit) == {limit + d : d \in -MaxOver..MaxOver}

TitleLengths == {0} \cup About(PushoverTitleLimit)

MessageLengths ==
  {0} \cup UNION {About(l) : l \in {PushoverMessageLimit, DiscordContentLimit,
                                    TelegramMessageBudget, TelegramTextLimit,
                                    SlackTextLimit}}

\* a payload with a title and a message of lengths about every limit, and the
\* truncateFrom of the service's configuration; the dispatcher takes no part
InitSend ==
  /\ config \in Config({0}, {0})
  /\ loggerRaises = FALSE
  /\ throwing = {}
  /\ now = StartTime
  /\ pendingTimers = << >>
  /\ lastImmediateTime = << >>
  /\ timers = {}
  /\ nextTimerId = 1
  /\ fanouts = << >>
  /\ calls = << >>
  /\ text = << >>
  /\ maxLength = 0
  /\ from = "end"
  /\ result = << >>
  /\ events = DefaultEvents
  /\ hook = NoHook
  /\ logger = NoLogger
  /\ request \in {[NoRequest EXCEPT !.title = t, !.message = m, !.truncateFrom = f] :
                    t \in TitleLengths, m \in MessageLengths, f \in TruncationMode}

NextSend == \E i \in 1..Len(ServiceNames) : send(ServiceNames[i])

SpecSend == InitSend /\ [][NextSend]_vars

\* ------------------------------------------------- what the claims speak of
DispatchCalls == {i \in 1..Len(calls) : calls[i].op = "dispatch"}

FlushCalls == {i \in 1..Len(calls) : calls[i].op = "flush"}

Delayable == EventType \ IMMEDIATE_EVENTS

\* the fan-outs that carry the payload of dispatch call i
FanoutsOf(i) == {f \in 1..Len(fanouts) : fanouts[f].payload = calls[i].payload}

\* dispatch call i was replaced in the pending map by a later dispatch
Superseded(i) == \E j \in DispatchCalls : calls[j].replaced = calls[i].payload.id

InMap(i) == \E e \in 1..Len(pendingTimers) : pendingTimers[e].payload = calls[i].payload

\* the dispatch calls that went to the delay queue
DelayedCalls == {i \in DispatchCalls : calls[i].path = "delayed"}

\* the last of the first n calls that dispatched category c (0: none)
LastCallOf(c, n) ==
  LET S == {i \in DispatchCalls : i <= n /\ calls[i].payload.eventType = c}
  IN  IF S = {} THEN 0 ELSE CHOOSE i \in S : \A j \in S : j <= i

\* the delayed payloads still pending when call k began
PendingAt(k) ==
  {i \in DelayedCalls :
     /\ i < k
     /\ ~\E j \in DispatchCalls : j < k /\ calls[j].replaced = calls[i].payload.id
     /\ ~\E f \in FanoutsOf(i) : fanouts[f].ncalls < k}

\* C1: with a positive delay, a burst of dispatches of one delayable category,
\* each made while the previous one is pending, is delivered as one fan-out that
\* carries the last payload: a timer's fan-out carries the payload of the last
\* dispatch of its category made before it fired, a payload that was replaced is
\* never delivered, and a payload that was not replaced is delivered exactly
\* once as soon as it has left the pending map.
Coalescing ==
  delayMs > 0 =>
    /\ \A f \in 1..Len(fanouts) :
         fanouts[f].origin = "timer" =>
           LET last == LastCallOf(fanouts[f].payload.eventType, fanouts[f].ncalls)
           IN  last # 0 /\ fanouts[f].payload = calls[last].payload
    /\ \A i \in DelayedCalls :
         /\ Superseded(i) => FanoutsOf(i) = {}
         /\ ~Superseded(i) =>
              IF InMap(i) THEN FanoutsOf(i) = {} ELSE Cardinality(FanoutsOf(i)) = 1

\* a burst of three dispatches of one category was delivered by its timer, once,
\* with the third payload, and nobody called flush
CoalescingWitness ==
  /\ delayMs > 0
  /\ FlushCalls = {}
  /\ \E i, j, k \in DelayedCalls :
       /\ calls[j].replaced = calls[i].payload.id
       /\ calls[k].replaced = calls[j].payload.id
       /\ \E f \in FanoutsOf(k) : fanouts[f].origin = "timer"

\* the live delay timers of the runtime
DelayTimers == {t \in timers : t.kind = "delay"}

\* C2: the pending map holds at most one entry per event type, the live delay
\* timers are exactly the timers the map records, and the payload of an entry is
\* the payload of the last dispatch of its event type and the payload its timer
\* delivers.
PendingEntryInvariant ==
  /\ \A a, b \in 1..Len(pendingTimers) :
       pendingTimers[a].key = pendingTimers[b].key => a = b
  /\ {t.id : t \in DelayTimers} = {pendingTimers[e].timer : e \in 1..Len(pendingTimers)}
  /\ Cardinality(DelayTimers) = Len(pendingTimers)
  /\ \A e \in 1..Len(pendingTimers) :
       LET entry == pendingTimers[e]
           last == LastCallOf(entry.key, Len(calls))
       IN  /\ entry.payload.eventType = entry.key
           /\ last # 0 /\ entry.payload = calls[last].payload
           /\ \A t \in DelayTimers : t.id = entry.timer => t.payload = entry.payload

\* two event types are pending, one of them after a replacement
PendingEntryWitness ==
  /\ Len(pendingTimers) = 2
  /\ \E i \in DelayedCalls : Superseded(i)

\* C3: a flush fans out every payload that was pending when it began, once, and
\* nothing else; none of these payloads is delivered again, by a timer or by a
\* later flush, however far the clock moves on.
FlushDrains ==
  \A k \in FlushCalls :
    /\ \A i \in PendingAt(k) :
         /\ Cardinality(FanoutsOf(i)) = 1
         /\ FanoutsOf(i) \subseteq calls[k].fanouts
    /\ \A f \in calls[k].fanouts :
         /\ fanouts[f].origin = "flush"
         /\ \E i \in PendingAt(k) : f \in FanoutsOf(i)
    /\ \A t \in timers : \A i \in PendingAt(k) : t.payload # calls[i].payload

\* a flush delivered two pending event types and the clock has passed the time
\* at which their timers were due
FlushDrainsWitness ==
  \E k \in FlushCalls :
    /\ Cardinality(PendingAt(k)) = 2
    /\ \A i \in PendingAt(k) : now > calls[i].at + delayMs
    /\ \E i, j \in PendingAt(k) : calls[i].payload.eventType # calls[j].payload.eventType

\* no dispatch was called between calls k and l
NoDispatchBetween(k, l) == \A m \in DispatchCalls : ~(k < m /\ m < l)

\* C4: a flush that finds nothing pending starts no fan-out and resolves, and
\* of two flushes with no dispatch in between the second starts no fan-out, so
\* that every pending payload is delivered once in total.
FlushIdempotent ==
  /\ \A k \in FlushCalls :
       PendingAt(k) = {} => calls[k].fanouts = {} /\ calls[k].status = "fulfilled"
  /\ \A k, l \in FlushCalls :
       k < l /\ NoDispatchBetween(k, l) =>
         /\ calls[l].fanouts = {} /\ calls[l].status = "fulfilled"
         /\ \A i \in PendingAt(k) : Cardinality(FanoutsOf(i)) = 1

\* two flushes in a row, the first of which delivered something
FlushIdempotentWitness ==
  \E k, l \in FlushCalls :
    /\ l = k + 1
    /\ PendingAt(k) # {}
    /\ calls[l].status = "fulfilled"

\* dispatch call i started a fan-out
Sent(i) == calls[i].fanouts # {}

\* the dispatch calls of event type c, and the first two of them
CallsOf(c) == {i \in DispatchCalls : calls[i].payload.eventType = c}

FirstTwo(c, i, j) ==
  /\ i \in CallsOf(c) /\ j \in CallsOf(c) /\ i < j
  /\ \A m \in CallsOf(c) : m = i \/ m = j \/ m > j

Suppressed(i) ==
  \E j \in DispatchCalls :
    /\ j < i
    /\ calls[j].payload.eventType = calls[i].payload.eventType
    /\ Sent(j)
    /\ calls[i].at - calls[j].at < DedupWindowMs

\* C6: with a positive delay, a dispatch of error or permission that the dedup
\* does not suppress starts its fan-out within the call, every enabled service
\* being invoked at the time of the call, and neither the pending map nor any
\* delay timer ever holds an error or a permission payload.
ImmediateBypass ==
  delayMs > 0 =>
    /\ \A i \in DispatchCalls :
         calls[i].payload.eventType \in {"error", "permission"} /\ ~Suppressed(i) =>
           /\ Cardinality(FanoutsOf(i)) = 1
           /\ \A f \in FanoutsOf(i) :
                /\ fanouts[f].call = i /\ fanouts[f].ncalls = i
                /\ fanouts[f].at = calls[i].at
                /\ \A s \in Enabled : fanouts[f].invoked[s] = 1
    /\ \A e \in 1..Len(pendingTimers) :
         pendingTimers[e].payload.eventType \notin {"error", "permission"}
    /\ \A t \in DelayTimers : t.payload.eventType \notin {"error", "permission"}

\* a permission dispatch under a positive delay has invoked a service and still
\* awaits it
ImmediateBypassWitness ==
  /\ delayMs > 0
  /\ \E i \in DispatchCalls :
       /\ calls[i].payload.eventType = "permission"
       /\ calls[i].status = "pending"
       /\ \E f \in FanoutsOf(i) : \E s \in Enabled : fanouts[f].invoked[s] = 1

\* C7: when the configured delay is 0, every dispatch call of whatever event type
\* starts exactly one fan-out within the call, the pending map is empty and no
\* delay timer is armed in every state, and a flush starts no fan-out.
ZeroDelayMode ==
  config.delay = 0 =>
    /\ \A i \in DispatchCalls :
         /\ Cardinality(FanoutsOf(i)) = 1
         /\ \A f \in FanoutsOf(i) : fanouts[f].call = i /\ fanouts[f].at = calls[i].at
    /\ pendingTimers = << >>
    /\ DelayTimers = {}
    /\ \A k \in FlushCalls : calls[k].fanouts = {}

\* with delay 0 a complete and a permission event were fanned out and a flush
\* followed
ZeroDelayWitness ==
  /\ config.delay = 0
  /\ \E i, j \in DispatchCalls :
       /\ calls[i].payload.eventType = "complete" /\ Sent(i)
       /\ calls[j].payload.eventType = "permission" /\ Sent(j)
  /\ \E k \in FlushCalls : k = Len(calls)

\* a live delay timer carries the payload of dispatch call i
Armed(i) == \E t \in DelayTimers : t.payload = calls[i].payload

\* C8: with a positive delay every delayable event type has its own timer: a
\* payload is replaced only by a dispatch of its own event type, a payload in
\* the pending map has a live timer of its own, and a payload that left the map
\* without being replaced was fanned out once, under its own event type.
IndependentTimers ==
  delayMs > 0 =>
    \A i \in DelayedCalls :
      /\ \A j \in DispatchCalls :
           calls[j].replaced = calls[i].payload.id =>
             calls[j].payload.eventType = calls[i].payload.eventType
      /\ ~Superseded(i) =>
           IF InMap(i)
             THEN Armed(i) /\ FanoutsOf(i) = {}
             ELSE /\ ~Armed(i)
                  /\ Cardinality(FanoutsOf(i)) = 1
                  /\ \A f \in FanoutsOf(i) :
                       fanouts[f].payload.eventType = calls[i].payload.eventType

\* complete and question were dispatched in the same window and each was
\* delivered by its own timer
IndependentTimersWitness ==
  /\ delayMs > 0
  /\ \E i, j \in DelayedCalls :
       /\ calls[i].payload.eventType = "complete"
       /\ calls[j].payload.eventType = "question"
       /\ \E f \in FanoutsOf(i), g \in FanoutsOf(j) :
            /\ fanouts[f].origin = "timer" /\ fanouts[g].origin = "timer"
            /\ fanouts[f].ncalls >= j /\ fanouts[g].ncalls >= i

\* C9: in every fan-out the send of every enabled service is invoked exactly
\* once whatever the other services do, an attempt that resolved stays resolved
\* and has no failure recorded, and once the fan-out has settled a failure is
\* recorded for exactly the attempts that were rejected.
BackendIsolation ==
  \A f \in 1..Len(fanouts) :
    /\ DOMAIN fanouts[f].invoked = Enabled
    /\ \A s \in Enabled :
         /\ fanouts[f].invoked[s] = 1
         /\ fanouts[f].att[s] = "fulfilled" => fanouts[f].logged[s] = 0
         /\ fanouts[f].state = "fulfilled" =>
              fanouts[f].logged[s] = (IF fanouts[f].att[s] = "rejected" THEN 1 ELSE 0)

\* in one fan-out a service resolved, another one was aborted by its deadline
\* and then rejected, and the fan-out has settled
BackendIsolationWitness ==
  \E f \in 1..Len(fanouts) : \E s, r \in Enabled :
    /\ fanouts[f].att[s] = "fulfilled" /\ fanouts[f].logged[s] = 0
    /\ fanouts[f].att[r] = "rejected" /\ fanouts[f].aborted[r]
    /\ fanouts[f].state = "fulfilled"

\* every attempt of every fan-out that call i started has settled
AllAttemptsSettled(i) ==
  \A f \in calls[i].fanouts : \A s \in DOMAIN fanouts[f].att : fanouts[f].att[s] # "pending"

\* C10: the promise of a dispatch() or flush() call is never rejected, whichever
\* attempts resolve, reject, throw or are aborted by their deadline, and it is
\* fulfilled as soon as all the attempts the call started have settled.
NeverRaises ==
  \A i \in 1..Len(calls) :
    /\ calls[i].status # "rejected"
    /\ AllAttemptsSettled(i) => calls[i].status = "fulfilled"

\* a flush resolved although in its fan-out one send threw and the other was
\* aborted by its deadline and rejected
NeverRaisesWitness ==
  \E k \in FlushCalls : \E f \in calls[k].fanouts : \E s, r \in Enabled :
    /\ s \in throwing /\ fanouts[f].att[s] = "rejected"
    /\ r \notin throwing /\ fanouts[f].aborted[r] /\ fanouts[f].att[r] = "rejected"
    /\ calls[k].status = "fulfilled"

\* C11: nothing thrown by a service call, by the callback of a delay timer or
\* by the logger propagates out of dispatch() or flush(): the promise of a call
\* is never rejected, also when logger.error throws while a failed attempt is
\* being recorded, and it is fulfilled once the fan-outs of the call are over.
PropagationPolicy ==
  \A i \in 1..Len(calls) :
    /\ calls[i].status \in {"pending", "fulfilled"}
    /\ (\A f \in calls[i].fanouts : fanouts[f].state # "pending") =>
         calls[i].status = "fulfilled"

\* the records of fan-out f that name service s
RecordsOf(f, s) == {i \in 1..Len(fanouts[f].log) : fanouts[f].log[i].name = s}

\* C12: in every fan-out logger.error is called exactly once for each service
\* whose attempt failed, by rejecting, by throwing or after the deadline
\* aborted it, with that service's name and the reason of the failure, and not
\* at all for a service whose attempt succeeded; when every enabled service
\* failed there is one record per service. Nothing is recorded before the
\* fan-out has settled.
FailureRecording ==
  \A f \in 1..Len(fanouts) :
    /\ fanouts[f].state = "pending" => fanouts[f].log = << >>
    /\ fanouts[f].state = "fulfilled" =>
         /\ \A s \in DOMAIN fanouts[f].att :
              /\ Cardinality(RecordsOf(f, s)) =
                   (IF fanouts[f].att[s] = "rejected" THEN 1 ELSE 0)
              /\ \A i \in RecordsOf(f, s) :
                   /\ fanouts[f].log[i].reason = fanouts[f].reason[s]
                   /\ fanouts[f].log[i].reason # "none"
         /\ \A i \in 1..Len(fanouts[f].log) : fanouts[f].log[i].name \in Enabled
         /\ (\A s \in DOMAIN fanouts[f].att : fanouts[f].att[s] = "rejected") =>
              Len(fanouts[f].log) = Len(services)

\* both services of a fan-out failed, one by rejecting and one after its
\* deadline, and each has its record
FailureRecordingWitness ==
  \E f \in 1..Len(fanouts) : \E s, r \in Enabled :
    /\ fanouts[f].state = "fulfilled"
    /\ Len(fanouts[f].log) = 2
    /\ fanouts[f].reason[s] = "Network error"
    /\ fanouts[f].reason[r] = "AbortError"

\* the dispatch calls that fan out within the call
ImmediateCalls == {i \in DispatchCalls : calls[i].path \in {"zero", "immediate"}}

\* C13: the promise of flush() settles only after every attempt of every
\* fan-out the flush started has resolved or rejected (also after its deadline
\* aborted it), and the promise of a dispatch() that fans out within the call,
\* because of its event type or a zero delay, settles only after every attempt
\* of that fan-out has; while an attempt is pending the call is pending.
WaitsForSettlement ==
  /\ \A k \in FlushCalls :
       /\ calls[k].status # "pending" => AllAttemptsSettled(k)
       /\ ~AllAttemptsSettled(k) => calls[k].status = "pending"
       /\ \A f \in calls[k].fanouts : fanouts[f].call = k
  /\ \A i \in ImmediateCalls :
       /\ Cardinality(calls[i].fanouts) = 1
       /\ \A f \in calls[i].fanouts : fanouts[f].call = i /\ DOMAIN fanouts[f].att = Enabled
       /\ calls[i].status # "pending" => AllAttemptsSettled(i)
       /\ ~AllAttemptsSettled(i) => calls[i].status = "pending"

\* a flush is still pending although one of the two attempts of its fan-out has
\* resolved: the other one was aborted by its deadline and has not rejected yet
WaitsForSettlementWitness ==
  \E k \in FlushCalls : \E f \in calls[k].fanouts : \E s, r \in Enabled :
    /\ calls[k].status = "pending"
    /\ fanouts[f].att[s] = "fulfilled"
    /\ fanouts[f].att[r] = "pending" /\ fanouts[f].aborted[r]

\* C14: with a positive delay, a dispatch of a delayable event type returns as
\* soon as its timer is armed: its promise is fulfilled within the call and the
\* call invokes no service; the fan-out of its payload is started by its timer,
\* not before the configured delay has passed since the call, or by a flush
\* that was called after it.
NonBlockingDelayed ==
  delayMs > 0 =>
    \A i \in DispatchCalls :
      calls[i].payload.eventType \in Delayable =>
        /\ calls[i].path = "delayed"
        /\ calls[i].status = "fulfilled"
        /\ calls[i].fanouts = {}
        /\ \A f \in FanoutsOf(i) :
             /\ fanouts[f].ncalls >= i
             /\ \/ /\ fanouts[f].origin = "timer"
                   /\ fanouts[f].at >= calls[i].at + delayMs
                \/ /\ fanouts[f].origin = "flush"
                   /\ fanouts[f].call \in FlushCalls
                   /\ fanouts[f].call > i

\* one delayed payload was delivered by its timer when the delay had passed,
\* another one by a flush before its delay had passed
NonBlockingDelayedWitness ==
  /\ delayMs > 0
  /\ \E i, j \in DelayedCalls :
       /\ \E f \in FanoutsOf(i) :
            fanouts[f].origin = "timer" /\ fanouts[f].at = calls[i].at + delayMs
       /\ \E f \in FanoutsOf(j) :
            fanouts[f].origin = "flush" /\ fanouts[f].at < calls[j].at + delayMs

NoEntry == [key |-> "none", timer |-> 0, payload |-> NoPayload]

\* the entry of event type c in the pending map m (NoEntry: the type is idle)
EntryOf(m, c) == IF MapHas(m, c) THEN MapGet(m, c) ELSE NoEntry

\* the step is a dispatch() of event type c
IsDispatchOf(c) ==
  /\ Len(calls') = Len(calls) + 1
  /\ calls'[Len(calls')].op = "dispatch"
  /\ calls'[Len(calls')].payload.eventType = c

\* the fan-outs the step starts
NewFanouts == {f \in 1..Len(fanouts') : f > Len(fanouts)}

\* the transitions of the pending entry of event type c in one step
CategoryStep(c) ==
  LET old == EntryOf(pendingTimers, c)
      new == EntryOf(pendingTimers', c)
  IN  /\ \/ new = old
         \/ /\ old = NoEntry /\ new # NoEntry
            /\ IsDispatchOf(c)
            /\ new.payload = calls'[Len(calls')].payload
            /\ NewFanouts = {}
         \/ /\ old # NoEntry /\ new # NoEntry /\ new # old
            /\ IsDispatchOf(c)
            /\ new.payload = calls'[Len(calls')].payload
            /\ \A t \in timers' : t.id # old.timer
            /\ NewFanouts = {}
         \/ /\ old # NoEntry /\ new = NoEntry
            /\ ~IsDispatchOf(c)
            /\ Cardinality({f \in NewFanouts : fanouts'[f].payload = old.payload}) = 1
            /\ \A f \in NewFanouts :
                 fanouts'[f].payload = old.payload => fanouts'[f].origin \in {"timer", "flush"}
            /\ \A t \in timers' : t.id # old.timer
      /\ (\E d \in EventType \ {c} : IsDispatchOf(d)) => new = old
      /\ Len(calls') = Len(calls) /\ Len(fanouts') = Len(fanouts) => new = old
      /\ Cardinality({t \in timers' : t.kind = "delay" /\ t.payload.eventType = c}) <= 1

\* C15: for each delayable event type the pending entry changes only from idle
\* to pending by a dispatch of that type, from pending to pending with the new
\* payload and the old timer cleared by another dispatch of that type, and from
\* pending to idle with one fan-out of its payload by its timer or by flush;
\* dispatches of other event types, service outcomes, deadlines and the clock
\* leave it as it is, and the type never has two armed timers.
CategoryStateMachine == [][\A c \in Delayable : CategoryStep(c)]_vars

\* complete went from idle to pending, was replaced, and is idle again after one
\* fan-out of the second payload
CategoryStateMachineWitness ==
  /\ ~MapHas(pendingTimers, "complete")
  /\ \E i, j \in DelayedCalls :
       /\ calls[i].payload.eventType = "complete"
       /\ calls[j].replaced = calls[i].payload.id
       /\ Cardinality(FanoutsOf(j)) = 1

\* the deadline of attempt s of fan-out f aborts its signal in this step
AbortsNow(f, s) == fanouts'[f].aborted[s] /\ ~fanouts[f].aborted[s]

\* C16: the signal of an attempt is aborted only while the attempt is pending
\* and not before 5 seconds have passed since it began; the step that aborts it
\* aborts no other signal, settles no attempt and changes neither the pending
\* map nor the dedup clock; and when the aborted attempt has rejected and the
\* fan-out has settled, the failure is recorded once under that service's name.
DeadlineLocal ==
  [][/\ \A f \in 1..Len(fanouts) : \A s \in DOMAIN fanouts[f].att :
          AbortsNow(f, s) =>
            /\ fanouts[f].att[s] = "pending"
            /\ now >= fanouts[f].at + ServiceTimeoutMs
            /\ \A g \in 1..Len(fanouts) : \A r \in DOMAIN fanouts[g].att :
                 <<g, r>> # <<f, s>> => fanouts'[g].aborted[r] = fanouts[g].aborted[r]
            /\ \A g \in 1..Len(fanouts) : fanouts'[g].att = fanouts[g].att
            /\ Len(fanouts') = Len(fanouts)
            /\ pendingTimers' = pendingTimers
            /\ lastImmediateTime' = lastImmediateTime
     /\ \A f \in 1..Len(fanouts') : \A s \in DOMAIN fanouts'[f].att :
          /\ fanouts'[f].aborted[s]
          /\ fanouts'[f].att[s] = "rejected"
          /\ fanouts'[f].state = "fulfilled"
          => \E i \in 1..Len(fanouts'[f].log) :
               /\ fanouts'[f].log[i] = [name |-> s, reason |-> "AbortError"]
               /\ \A j \in 1..Len(fanouts'[f].log) : fanouts'[f].log[j].name = s => j = i
    ]_vars

\* an attempt was aborted by its deadline, rejected and was recorded, while its
\* sibling, which resolved in time, was never aborted
DeadlineLocalWitness ==
  \E f \in 1..Len(fanouts) : \E s, r \in Enabled :
    /\ fanouts[f].aborted[s] /\ ~fanouts[f].aborted[r]
    /\ fanouts[f].att[r] = "fulfilled"
    /\ \E i \in 1..Len(fanouts[f].log) : fanouts[f].log[i].name = s
    /\ fanouts[f].origin = "immediate"

\* no service is enabled in the configuration
NoneEnabled == \A s \in DOMAIN config.enabled : ~config.enabled[s]

\* C17: when no service is enabled, every fan-out, whether started by an
\* immediate or zero-delay dispatch, by a delay timer or by flush, invokes no
\* service, arms no deadline timer, records nothing and is fulfilled at once,
\* and no call is rejected or left pending; the delay queue works as ever: a
\* delayed payload that was not replaced stays in the map with its timer until
\* the timer or a flush fans it out once.
ZeroBackends ==
  NoneEnabled =>
    /\ \A f \in 1..Len(fanouts) :
         /\ fanouts[f].invoked = << >>
         /\ fanouts[f].att = << >>
         /\ fanouts[f].log = << >>
         /\ fanouts[f].state = "fulfilled"
    /\ \A t \in timers : t.kind # "deadline"
    /\ \A i \in 1..Len(calls) : calls[i].status = "fulfilled"
    /\ \A i \in DelayedCalls :
         /\ Superseded(i) => FanoutsOf(i) = {}
         /\ ~Superseded(i) =>
              IF InMap(i) THEN Armed(i) /\ FanoutsOf(i) = {}
              ELSE ~Armed(i) /\ Cardinality(FanoutsOf(i)) = 1

\* with no service enabled one delayed payload was fanned out by its timer and
\* another one by a flush
ZeroBackendsWitness ==
  /\ NoneEnabled
  /\ \E f, g \in 1..Len(fanouts) :
       /\ fanouts[f].origin = "flush"
       /\ fanouts[g].origin = "timer"

\* config.delay is negative or not a whole number of seconds
NegativeOrFractional == config.delay < 0 \/ config.delay % 10 # 0

\* every dispatch call is fanned out within the call and nothing is pending
DeliveredImmediately ==
  /\ pendingTimers = << >>
  /\ DelayTimers = {}
  /\ \A i \in DispatchCalls :
       /\ Cardinality(FanoutsOf(i)) = 1
       /\ \A f \in FanoutsOf(i) : fanouts[f].call = i /\ fanouts[f].at = calls[i].at

\* the claim of C18 as it stands: a negative or fractional delay acts as the
\* delay 0, every dispatch is delivered immediately and nothing is held pending
DelayClampedToZero ==
  NegativeOrFractional => DeliveredImmediately

\* C18: a negative delay and a fractional delay below one second become 0, so
\* that every dispatch is delivered immediately and nothing is held pending; a
\* fractional delay above one second is rounded down to whole seconds and is a
\* positive delay: delayable events are held for that many seconds.
DelayFloored ==
  NegativeOrFractional =>
    IF config.delay < 10
      THEN delayMs = 0 /\ DeliveredImmediately
      ELSE /\ \E n \in 1..MaxHalfSec :
                /\ 10 * n < config.delay /\ config.delay < 10 * (n + 1)
                /\ delayMs = 1000 * n
           /\ \A i \in DispatchCalls :
                calls[i].payload.eventType \in Delayable =>
                  /\ calls[i].fanouts = {}
                  /\ \A f \in FanoutsOf(i) :
                       fanouts[f].origin = "timer" => fanouts[f].at >= calls[i].at + delayMs
                  /\ InMap(i) \/ Superseded(i) \/ Cardinality(FanoutsOf(i)) = 1

\* with a delay of minus half a second a complete event was fanned out within
\* the call and a flush that followed found nothing to deliver
DelayFlooredWitness ==
  /\ config.delay = -5
  /\ \E i \in DispatchCalls : \E k \in FlushCalls :
       /\ calls[i].payload.eventType = "complete" /\ Sent(i)
       /\ i < k /\ calls[k].fanouts = {}

\* truncate has returned
Truncated == result # << >>

\* C19: truncate(text, maxLength, direction) returns text unchanged whenever
\* text.length <= maxLength, for both directions, the empty text and
\* maxLength = 0 included.
TruncateIdentity ==
  Truncated /\ Len(text) <= maxLength => result[1] = text

\* a text of exactly maxLength characters, more than the indicator has, came
\* back unchanged from a truncation from the start
TruncateIdentityWitness ==
  /\ Truncated
  /\ from = "start"
  /\ Len(text) = maxLength /\ maxLength > Len(indicator)
  /\ result[1] = text

\* the last three characters of s
Tail3(s) == SubSeq(s, Len(s) - 2, Len(s))

\* the claim of C20 as it stands: for every text longer than maxLength the
\* result of a truncation from the end has exactly maxLength characters, starts
\* with the first maxLength - 3 characters of the text and ends with "..."
TruncateEndExact ==
  Truncated /\ Len(text) > maxLength /\ from = "end" =>
    /\ Len(result[1]) = maxLength
    /\ \A i \in 1..(maxLength - 3) : result[1][i] = text[i]
    /\ Tail3(result[1]) = <<".", ".", ".">>

\* C20: for every text longer than maxLength, with maxLength at least 3, the
\* result of a truncation from the end has exactly maxLength characters, starts
\* with the first maxLength - 3 characters of the text and ends with "..."; with
\* maxLength below 3 the result is "...", three characters long.
TruncateEnd ==
  Truncated /\ Len(text) > maxLength /\ from = "end" =>
    IF maxLength >= 3
      THEN /\ Len(result[1]) = maxLength
           /\ \A i \in 1..(maxLength - 3) : result[1][i] = text[i]
           /\ Tail3(result[1]) = <<".", ".", ".">>
      ELSE result[1] = <<".", ".", ".">>

\* a text of five characters was cut to four from the end: its first character
\* and the indicator
TruncateEndWitness ==
  /\ Truncated
  /\ from = "end"
  /\ Len(text) = 5 /\ maxLength = 4
  /\ text[1] = "a" /\ text[5] = "b"
  /\ result[1] = <<"a", ".", ".", ".">>

\* C21: for every text longer than maxLength, with maxLength above 3, a
\* truncation from the start returns "..." followed by the last maxLength - 3
\* characters of the text, maxLength characters in all.
TruncateStart ==
  Truncated /\ Len(text) > maxLength /\ maxLength > 3 /\ from = "start" =>
    /\ Len(result[1]) = maxLength
    /\ SubSeq(result[1], 1, 3) = <<".", ".", ".">>
    /\ \A i \in 1..(maxLength - 3) :
         result[1][3 + i] = text[Len(text) - (maxLength - 3) + i]

\* a text of five characters was cut to four from the start: the indicator and
\* its last character
TruncateStartWitness ==
  /\ Truncated
  /\ from = "start"
  /\ Len(text) = 5 /\ maxLength = 4
  /\ text[1] = "a" /\ text[5] = "b"
  /\ result[1] = <<".", ".", ".", "b">>

\* C22: for every text longer than maxLength, with maxLength at most 3, zero
\* included, truncate returns the indicator "..." alone, in both directions.
TruncateTiny ==
  Truncated /\ Len(text) > maxLength /\ maxLength <= 3 =>
    result[1] = <<".", ".", ".">>

\* a text of four characters cut to two from the end came back as "..."
TruncateTinyWitness ==
  /\ Truncated
  /\ from = "end"
  /\ Len(text) = 4 /\ maxLength = 2
  /\ text[1] = "a"
  /\ result[1] = <<".", ".", ".">>

\* fan-outs f and g start less than a debounce window apart
WithinWindow(f, g) ==
  /\ fanouts[f].at - fanouts[g].at < DebounceWindowMs
  /\ fanouts[g].at - fanouts[f].at < DebounceWindowMs

\* C23: the debouncing as documented: with a service enabled, at most one
\* notification per event type is sent within any 1-second window, repeated
\* events of the type being aggregated, while a dispatch of an event type of
\* which nothing was dispatched in the second before it is sent or held for
\* its timer, not dropped.
DebouncedAsDocumented ==
  Len(services) > 0 =>
    /\ \A f, g \in 1..Len(fanouts) :
         f # g /\ fanouts[f].payload.eventType = fanouts[g].payload.eventType =>
           ~WithinWindow(f, g)
    /\ \A i \in DispatchCalls :
         (\A j \in CallsOf(calls[i].payload.eventType) :
            j < i => calls[i].at - calls[j].at >= DebounceWindowMs) =>
           calls[i].path # "dropped"

\* the hook invocation is past its filters and buildPayload
Decided == hook.pc \in {"dispatch", "done"}

\* the event type the input of the hook invocation maps to ("none": no event
\* type); an idle session is a subagent's if it has a parentID, unless the
\* lookup of the session failed
MapsTo ==
  CASE hook.name = "event" /\ hook.type = "session.idle" ->
         IF hook.sessionID = "ses_sub" /\ hook.session # <<"throws">>
           THEN "subagent_complete" ELSE "complete"
    [] hook.name = "event" /\ hook.type = "session.error" -> "error"
    [] hook.name = "event" /\ hook.type = "permission.updated" -> "permission"
    [] hook.name = "permission.ask" -> "permission"
    [] hook.name = "tool.execute.before" /\ hook.tool = "question" -> "question"
    [] OTHER -> "none"

DispatchedTypes == {hook.dispatched[i].eventType : i \in 1..Len(hook.dispatched)}

\* C24: for every hook invocation a notification of event type T is passed to
\* the dispatcher if and only if the input of the hook maps to T and events[T]
\* is not false, whatever the flags of the other event types are; an unknown
\* host event or a tool other than question dispatches nothing.
EventFilteringPerType ==
  Decided =>
    /\ Len(hook.dispatched) <= 1
    /\ \A c \in EventType :
         c \in DispatchedTypes <=> (MapsTo = c /\ events[c] # "false")
    /\ MapsTo = "none" => hook.dispatched = << >>

LoggerNeverRaises ==
  /\ logger.disabled = logger.mkdirFailed
  /\ \A i \in 1..Len(logger.calls) :
       LET c == logger.calls[i] IN
       /\ ~c.raised
       /\ c.wrote <=> /\ logger.enabled
                      /\ ~logger.mkdirFailed
                      /\ "appendFileSync" \notin c.fails
                      /\ ~(c.method = "warn" /\ logger.level = "error")

\* on a working logger a call during which every file operation failed has
\* returned without a line, and the next call wrote its line
LoggerNeverRaisesWitness ==
  /\ Len(logger.calls) = 2
  /\ ~logger.disabled
  /\ logger.calls[1].fails = FsOps /\ ~logger.calls[1].wrote /\ ~logger.calls[1].raised
  /\ logger.calls[2].fails = {} /\ logger.calls[2].wrote

\* dispatch call j of the event type of call i was accepted less than 500 ms
\* before call i
AcceptedJustBefore(i) ==
  \E j \in DispatchCalls :
    /\ j < i
    /\ calls[j].payload.eventType = calls[i].payload.eventType
    /\ calls[j].path = "immediate"
    /\ calls[i].at - calls[j].at < DedupWindowMs

\* C27: with a positive delay, a dispatch of error or permission is dropped
\* exactly when an earlier dispatch of the same event type was accepted less
\* than 500 ms before it, and is accepted and fanned out otherwise: the first
\* of its event type always is, one that comes 500 ms or more after the last
\* accepted one is, and a dispatch of the other immediate event type plays no
\* part.
DedupDecision ==
  delayMs > 0 =>
    \A i \in DispatchCalls :
      calls[i].payload.eventType \in {"error", "permission"} =>
        /\ calls[i].path \in {"dropped", "immediate"}
        /\ calls[i].path = "dropped" <=> AcceptedJustBefore(i)
        /\ calls[i].path = "dropped" => FanoutsOf(i) = {}
        /\ calls[i].path = "immediate" => Cardinality(FanoutsOf(i)) = 1

\* under a positive delay three permissions were dispatched, two in the same
\* instant and one 500 ms later: the second was dropped, and the third, exactly
\* 500 ms after the accepted one, was accepted
DedupDecisionWitness ==
  /\ delayMs > 0
  /\ \E i, j, k \in DispatchCalls :
       /\ i < j /\ j < k
       /\ \A m \in {i, j, k} : calls[m].payload.eventType = "permission"
       /\ calls[i].path = "immediate" /\ calls[j].path = "dropped"
       /\ calls[k].path = "immediate"
       /\ calls[j].at = calls[i].at
       /\ calls[k].at - calls[i].at = DedupWindowMs
\* C28: the time recorded for error and for permission never decreases, in
\* any step: a dispatch, a delay timer firing, a flush, a backend settling, or
\* the clock moving on or being set back.
DedupClockMonotone ==
  [][\A c \in IMMEDIATE_EVENTS : LastTime(c)' >= LastTime(c)]_vars

\* the clock was set back after a permission was accepted, a second
\* permission was dispatched at the earlier time and dropped, and the time
\* recorded is still that of the first
DedupClockMonotoneWitness ==
  \E i, j \in DispatchCalls :
    /\ i < j
    /\ calls[i].payload.eventType = "permission" /\ calls[i].path = "immediate"
    /\ calls[j].payload.eventType = "permission" /\ calls[j].path = "dropped"
    /\ calls[j].at < calls[i].at
    /\ LastTime("permission") = calls[i].at

\* the fan-outs a delay timer started
TimerFanouts == {f \in 1..Len(fanouts) : fanouts[f].origin = "timer"}

\* the first dispatch of the event type of fan-out f made after f started
FirstAfter(f, j) ==
  /\ j \in DispatchCalls
  /\ j > fanouts[f].ncalls
  /\ calls[j].payload.eventType = fanouts[f].payload.eventType
  /\ \A m \in DispatchCalls :
       m > fanouts[f].ncalls /\ m < j =>
         calls[m].payload.eventType # fanouts[f].payload.eventType

\* C29: once a delay timer has started its fan-out, its event type is idle
\* again: the next dispatch of that event type, however the fan-out fares,
\* finds no entry to replace and arms a timer of its own; the fan-out of the
\* timer keeps its payload and its attempts, and the new payload is pending,
\* replaced by a later dispatch, or delivered once in a fan-out of its own.
TimerFireIdlesFirst ==
  delayMs > 0 =>
    \A f \in TimerFanouts : \A j \in DispatchCalls :
      FirstAfter(f, j) =>
        /\ calls[j].path = "delayed"
        /\ calls[j].replaced = 0
        /\ calls[j].at >= fanouts[f].at
        /\ fanouts[f].payload # calls[j].payload
        /\ f \notin FanoutsOf(j)
        /\ ~Superseded(j) =>
             IF InMap(j)
               THEN /\ FanoutsOf(j) = {}
                    /\ \E t \in DelayTimers :
                         t.payload = calls[j].payload /\ t.due = calls[j].at + delayMs
               ELSE Cardinality(FanoutsOf(j)) = 1

\* the timer of complete fired, complete was dispatched again while that
\* fan-out was in flight, and the timer of the second payload fired too: both
\* fan-outs are in flight, each with its own payload
TimerFireIdlesFirstWitness ==
  \E f, g \in TimerFanouts : \E j \in DispatchCalls :
    /\ FirstAfter(f, j)
    /\ calls[j].payload.eventType = "complete"
    /\ FanoutsOf(j) = {g}
    /\ fanouts[f].state = "pending" /\ fanouts[g].state = "pending"

\* C30: with a positive delay, a dispatch of error or permission never goes to
\* the delay queue, and when it is accepted its fan-out starts within the call;
\* a delayable payload that was pending when it was made is not delivered by
\* it: every fan-out of that payload starts later than the fan-out of the
\* immediate payload, and is started by the payload's own timer, not before
\* the delay has passed, or by a flush called afterwards.
NoCrossOrdering ==
  delayMs > 0 =>
    \A j \in DispatchCalls :
      calls[j].payload.eventType \in {"error", "permission"} =>
        /\ calls[j].path \in {"immediate", "dropped"}
        /\ calls[j].path = "immediate" =>
             \E f \in 1..Len(fanouts) :
               /\ FanoutsOf(j) = {f}
               /\ fanouts[f].call = j /\ fanouts[f].at = calls[j].at
        /\ \A i \in PendingAt(j) : \A g \in FanoutsOf(i) :
             /\ \A f \in FanoutsOf(j) : g > f
             /\ fanouts[g].ncalls >= j
             /\ \/ /\ fanouts[g].origin = "timer"
                   /\ fanouts[g].at >= calls[i].at + delayMs
                \/ /\ fanouts[g].origin = "flush"
                   /\ fanouts[g].call \in FlushCalls /\ fanouts[g].call > j

\* complete was dispatched before error and delivered after it: error was
\* fanned out within its call, and the timer of complete fired later
NoCrossOrderingWitness ==
  /\ delayMs > 0
  /\ \E i, j \in DispatchCalls :
       /\ i < j
       /\ calls[i].payload.eventType = "complete"
       /\ calls[j].payload.eventType = "error"
       /\ i \in PendingAt(j)
       /\ \E f \in FanoutsOf(j) : \E g \in FanoutsOf(i) :
            f < g /\ fanouts[g].origin = "timer" /\ fanouts[g].at > fanouts[f].at

\* the texts of the request of a service are within the limits of its provider
WithinLimit(service, body) ==
  CASE service = "Pushover" ->
         Len(body.message) <= PushoverMessageLimit /\ Len(body.title) <= PushoverTitleLimit
    [] service = "Telegram" -> Len(body.text) <= TelegramTextLimit
    [] service = "Slack" -> Len(body.text) <= SlackTextLimit
    [] service = "Discord" -> Len(body.content) <= DiscordContentLimit

\* C31: whatever the lengths of the title and of the message, the message of
\* Pushover has at most 1024 characters and its title at most 250, the text of
\* Telegram at most 4096, the text of Slack at most 40000 and the content of
\* Discord at most 2000.
ProviderLengthLimits ==
  request.service # "none" => WithinLimit(request.service, request.body)
\* dispatch call i awaits a fan-out that has not settled
InFlight(i) == calls[i].status = "pending"

AcceptsNow(c) == IsDispatchOf(c) /\ calls'[Len(calls')].path = "immediate"

\* C33: the dedup clock holds entries for error and permission only, and a
\* step changes it only if it is a dispatch of error or permission accepted
\* under a positive delay, which sets the entry of its event type to the
\* current time and leaves the other entry alone; a dropped dispatch, a
\* dispatch of a delayable event, a dispatch under delay 0, a timer firing, a
\* backend settling and a flush leave it as it is.
DedupClockWriters ==
  [][/\ DOMAIN lastImmediateTime' \subseteq {"error", "permission"}
     /\ \A c \in {"error", "permission"} :
          IF delayMs > 0 /\ AcceptsNow(c)
            THEN /\ c \in DOMAIN lastImmediateTime'
                 /\ lastImmediateTime'[c] = now
            ELSE LastTime(c)' = LastTime(c)
     /\ lastImmediateTime' # lastImmediateTime =>
          delayMs > 0 /\ \E c \in {"error", "permission"} : AcceptsNow(c)]_vars

\* an error was accepted, and afterwards a complete was dispatched, its timer
\* fired and flush was called: the clock still holds the time of the error and
\* nothing else
DedupClockWritersWitness ==
  /\ FlushCalls # {}
  /\ DOMAIN lastImmediateTime = {"error"}
  /\ \E i, j \in DispatchCalls :
       /\ i < j
       /\ calls[i].payload.eventType = "error" /\ calls[i].path = "immediate"
       /\ lastImmediateTime["error"] = calls[i].at
       /\ calls[j].payload.eventType = "complete"
       /\ \E g \in FanoutsOf(j) : fanouts[g].origin = "timer"
       /\ now > calls[i].at

\* dispatch call i was the first of an unbroken run of dispatches of its event
\* type that ends with call l: each call of the run replaced the one before it
RECURSIVE RunFrom(_, _)
RunFrom(i, l) ==
  \/ i = l
  \/ \E j \in DelayedCalls : calls[j].replaced = calls[i].payload.id /\ RunFrom(j, l)

\* C34: with a positive delay, a delay timer delivers an event type no sooner
\* than a full delay after the last dispatch of that event type, however long
\* ago the first dispatch of the run was made; until then, and unless flush is
\* called, the event type has no fan-out, and every payload of the run but the
\* last is never delivered.
UnboundedDeferral ==
  delayMs > 0 =>
    \A i, l \in DelayedCalls :
      RunFrom(i, l) =>
        /\ i # l => FanoutsOf(i) = {}
        /\ \A f \in FanoutsOf(l) :
             /\ fanouts[f].origin \in {"timer", "flush"}
             /\ fanouts[f].origin = "timer" => fanouts[f].at >= calls[l].at + delayMs
        /\ InMap(l) =>
             \A f \in 1..Len(fanouts) :
               fanouts[f].payload.eventType = calls[i].payload.eventType =>
                 fanouts[f].ncalls < i

\* three dispatches of complete, each before the timer of the one before it
\* was due, were delivered once, by the timer of the third, two full delays
\* after the first was dispatched
UnboundedDeferralWitness ==
  /\ delayMs > 0
  /\ \E i, j, l \in DelayedCalls :
       /\ calls[i].payload.eventType = "complete"
       /\ calls[j].replaced = calls[i].payload.id
       /\ calls[l].replaced = calls[j].payload.id
       /\ calls[j].at > calls[i].at /\ calls[l].at > calls[j].at
       /\ \E f \in FanoutsOf(l) :
            fanouts[f].origin = "timer" /\ fanouts[f].at >= calls[i].at + 2 * delayMs
       /\ FanoutsOf(i) = {} /\ FanoutsOf(j) = {}

\* the dispatch calls whose payload fan-out f carries
CallsOfFanout(f) == {i \in DispatchCalls : calls[i].payload = fanouts[f].payload}

\* C35: every fan-out carries the payload of exactly one dispatch call made
\* before it started; a dispatch call has at most one fan-out in the whole run,
\* started by the call itself (immediate path), by its delay timer or by a
\* flush; and no live delay timer holds a payload that was replaced, flushed or
\* delivered.
NoAmplification ==
  /\ \A f \in 1..Len(fanouts) :
       /\ Cardinality(CallsOfFanout(f)) = 1
       /\ \A i \in CallsOfFanout(f) :
            /\ i <= fanouts[f].ncalls
            /\ calls[i].at <= fanouts[f].at
            /\ IF calls[i].path \in {"zero", "immediate"}
                 THEN fanouts[f].origin = calls[i].path /\ fanouts[f].call = i
                 ELSE calls[i].path = "delayed" /\ fanouts[f].origin \in {"timer", "flush"}
  /\ \A i \in DispatchCalls :
       /\ Cardinality(FanoutsOf(i)) <= 1
       /\ calls[i].path = "dropped" => FanoutsOf(i) = {}
       /\ Superseded(i) => FanoutsOf(i) = {}
  /\ \A t \in DelayTimers :
       \E i \in DelayedCalls :
         /\ t.payload = calls[i].payload
         /\ ~Superseded(i) /\ FanoutsOf(i) = {} /\ InMap(i)

\* the clock is past the time at which the timers of two payloads were due:
\* one was replaced and never delivered, the other was delivered by a flush,
\* once, and no delay timer is left
NoAmplificationWitness ==
  /\ DelayTimers = {}
  /\ \E i, j \in DelayedCalls :
       /\ calls[j].replaced = calls[i].payload.id
       /\ FanoutsOf(i) = {}
       /\ \E f \in 1..Len(fanouts) : FanoutsOf(j) = {f} /\ fanouts[f].origin = "flush"
       /\ now >= calls[j].at + delayMs

\* the step is a call of flush
IsFlush == Len(calls') = Len(calls) + 1 /\ calls'[Len(calls')].op = "flush"

\* no dispatch was called after call k
NoDispatchSince(k) == \A m \in DispatchCalls : m < k

\* C36: a flush called while an earlier flush still awaits its fan-outs, with
\* no dispatch since that flush, finds the map empty: it starts no fan-out,
\* clears no timer, resolves in the step of the call and leaves the earlier
\* flush waiting; every payload the earlier flush found pending has exactly one
\* fan-out before and after.
OverlappingFlush ==
  [][\A k \in FlushCalls :
       IsFlush /\ calls[k].status = "pending" /\ NoDispatchSince(k) =>
         /\ pendingTimers = << >> /\ pendingTimers' = << >>
         /\ fanouts' = fanouts
         /\ timers' = timers
         /\ calls'[Len(calls')].fanouts = {}
         /\ calls'[Len(calls')].status = "fulfilled"
         /\ calls'[k] = calls[k]
         /\ \A i \in PendingAt(k) :
              Cardinality(FanoutsOf(i)) = 1 /\ Cardinality(FanoutsOf(i)') = 1]_vars

\* a second flush has resolved without a fan-out while the first, which
\* delivered a pending payload, still awaits it
OverlappingFlushWitness ==
  \E k, l \in FlushCalls :
    /\ k < l /\ NoDispatchSince(k)
    /\ PendingAt(k) # {}
    /\ calls[k].status = "pending"
    /\ calls[l].status = "fulfilled" /\ calls[l].fanouts = {}

\* flush call k resolves in this step
ResolvesNow(k) == calls[k].status = "pending" /\ calls'[k].status # "pending"

\* the claim of C37 as it stands: when a flush resolves, every delayable event
\* type dispatched while it waited still has its entry in the pending map
SubmitDuringFlushStillPending ==
  [][\A k \in FlushCalls : \A j \in DelayedCalls :
       j > k /\ ResolvesNow(k) => MapHas(pendingTimers', calls[j].payload.eventType)]_vars

\* C37: a delayable payload dispatched while a flush waits for its fan-outs is
\* not among the fan-outs of that flush; when the flush resolves the payload is
\* in the pending map, or was replaced there by a later dispatch of its event
\* type, or has been delivered in the meantime by its own timer, a full delay
\* after its dispatch, or by a later flush.
SubmitDuringFlush ==
  [][\A k \in FlushCalls : \A j \in DelayedCalls :
       j > k /\ ResolvesNow(k) =>
         /\ FanoutsOf(j)' \cap calls'[k].fanouts = {}
         /\ \/ InMap(j)'
            \/ Superseded(j)'
            \/ \E f \in FanoutsOf(j)' :
                 \/ /\ fanouts'[f].origin = "timer"
                    /\ fanouts'[f].at >= calls[j].at + delayMs
                 \/ /\ fanouts'[f].origin = "flush"
                    /\ fanouts'[f].call \in FlushCalls /\ fanouts'[f].call > j]_vars

\* a flush that delivered one payload still waits for it, and a payload
\* dispatched after its call is pending in the map with a timer of its own
SubmitDuringFlushWitness ==
  \E k \in FlushCalls : \E j \in DelayedCalls :
    /\ j > k
    /\ calls[k].fanouts # {} /\ calls[k].status = "pending"
    /\ InMap(j) /\ FanoutsOf(j) = {}
    /\ \E t \in DelayTimers : t.payload = calls[j].payload

\* C38: a flush awaits the fan-outs of its own snapshot and no other: the
\* fan-outs it tracks were all started by it, and it is pending exactly while
\* one of them is, whatever the state of a fan-out that a delay timer or an
\* immediate dispatch started.
FlushTracksOwn ==
  \A k \in FlushCalls :
    /\ \A f \in calls[k].fanouts :
         f \in 1..Len(fanouts) /\ fanouts[f].origin = "flush" /\ fanouts[f].call = k
    /\ \A f \in 1..Len(fanouts) :
         fanouts[f].origin # "flush" \/ fanouts[f].call # k => f \notin calls[k].fanouts
    /\ calls[k].status = "pending" <=>
         \E f \in calls[k].fanouts : fanouts[f].state = "pending"

\* a flush that delivered a pending payload has resolved while the fan-out a
\* delay timer started before the flush was called is still in flight
FlushTracksOwnWitness ==
  \E k \in FlushCalls : \E f \in 1..Len(fanouts) :
    /\ fanouts[f].origin = "timer"
    /\ fanouts[f].ncalls < k
    /\ fanouts[f].state = "pending"
    /\ \E s \in DOMAIN fanouts[f].att : fanouts[f].att[s] = "pending"
    /\ calls[k].fanouts # {}
    /\ calls[k].status = "fulfilled"

\* the live deadline timers of the runtime
DeadlineTimers == {t \in timers : t.kind = "deadline"}

\* in the state after the step: every live deadline timer belongs to a pending
\* attempt whose signal is not aborted and is due 5 seconds after the attempt
\* began, and a fan-out that has settled has none
DeadlinesClean ==
  /\ \A t \in DeadlineTimers' :
       /\ t.fanout \in 1..Len(fanouts')
       /\ fanouts'[t.fanout].state = "pending"
       /\ fanouts'[t.fanout].att[t.service] = "pending"
       /\ ~fanouts'[t.fanout].aborted[t.service]
       /\ fanouts'[t.fanout].timeoutId[t.service] = t.id
       /\ t.due = fanouts'[t.fanout].at + ServiceTimeoutMs

\* C39: the deadline timer of an attempt is live only while the attempt is
\* pending: the step in which the attempt settles, fulfilled or rejected,
\* removes it, so a fan-out that has settled has no deadline timer left; and
\* the signal of an attempt that has settled is never aborted afterwards.
DeadlineCleanup ==
  [][/\ DeadlinesClean
     /\ \A f \in 1..Len(fanouts) : \A s \in DOMAIN fanouts[f].att :
          fanouts[f].att[s] # "pending" =>
            fanouts'[f].aborted[s] = fanouts[f].aborted[s]]_vars

\* the deadline of a fan-out has passed after one of its attempts was
\* fulfilled and the other rejected: no signal was aborted and no deadline
\* timer is left
DeadlineCleanupWitness ==
  /\ DeadlineTimers = {}
  /\ \E f \in 1..Len(fanouts) :
       /\ now >= fanouts[f].at + ServiceTimeoutMs
       /\ \E s \in DOMAIN fanouts[f].att : fanouts[f].att[s] = "fulfilled"
       /\ \E s \in DOMAIN fanouts[f].att :
            fanouts[f].att[s] = "rejected" /\ fanouts[f].reason[s] = "Network error"
       /\ \A s \in DOMAIN fanouts[f].att : ~fanouts[f].aborted[s]

\* call i awaits a fan-out with an attempt that has not settled
AwaitsAttempt(i) ==
  \E f \in calls[i].fanouts : \E s \in DOMAIN fanouts[f].att : fanouts[f].att[s] = "pending"

\* C40: a call stays pending as long as an attempt of a fan-out it awaits has
\* not settled, aborted or not; and when every backend settles, at the latest
\* by rejecting once its signal is aborted, every call of dispatch and of
\* flush is resolved in the end.
Termination ==
  /\ [](\A i \in 1..Len(calls) : AwaitsAttempt(i) => calls[i].status = "pending")
  /\ \A i \in 1..(LiveDispatch + LiveFlush) :
       (Len(calls) >= i) ~> (Len(calls) >= i /\ calls[i].status = "fulfilled")

\* a dispatch has resolved after the deadline aborted the signal of its
\* attempt and the backend rejected with the abort error
TerminationWitness ==
  \E i \in DispatchCalls : \E f \in calls[i].fanouts : \E s \in DOMAIN fanouts[f].att :
    /\ fanouts[f].aborted[s]
    /\ fanouts[f].reason[s] = "AbortError"
    /\ calls[i].status = "fulfilled"

====
